---- MODULE Spec2Model ----
(***************************************************************************)
(* Model of the SDT agent workflow engine (src/agent/main_agent.py) and    *)
(* of the phase nodes it sequences (src/agent/nodes/*.py).                 *)
(*                                                                         *)
(* Python values are represented as follows.                               *)
(*   Optional[T]   a set with at most one element: None == {}, Some(v).    *)
(*   dict          a TLA+ record/function; {} is EmptyDict == <<>>.        *)
(*   list          a sequence.                                             *)
(*   path          a record [dir, stem, ext]: dir is the sequence of       *)
(*                 directory components (<<>> when the path has no parent),*)
(*                 stem the sequence of words of the file stem, ext the    *)
(*                 suffix.                                                 *)
(*   text          the sequence of its blocks (error text), or a small     *)
(*                 token (file content, process output).                   *)
(***************************************************************************)
EXTENDS Integers, Sequences, FiniteSets, TLC

\* ------------------------------------------------------------------ bounds

\* Number of runs one engine instance executes in sequence.
MaxRuns == 2

\* ------------------------------------------------------- program constants

max_retries == 3

END == "END"

\* ------------------------------------------------------------ Python values

None == {}

Some(v) == {v}

TheValue(o) == CHOOSE v \in o : TRUE

EmptyDict == <<>>

\* d.get(k): None when the key is absent.
Get(d, k) == IF k \in DOMAIN d THEN Some(d[k]) ELSE None

\* Python truthiness of d.get(k) for a boolean entry.
GetTruthy(d, k) == k \in DOMAIN d /\ d[k] = TRUE

\* Python truthiness of an Optional[dict]: None and {} are falsy.
DictTruthy(o) == o # None /\ DOMAIN TheValue(o) # {}

Range(s) == {s[i] : i \in DOMAIN s}

Min(a, b) == IF a < b THEN a ELSE b

\* ------------------------------------------------------------------- paths

MkPath(d, s, e) == [dir |-> d, stem |-> s, ext |-> e]

\* temperature.py
SrcFile == MkPath(<<>>, <<"temperature">>, ".py")

\* tests/test_temperature.py
TestFile == MkPath(<<"tests">>, <<"test", "_", "temperature">>, ".py")

\* test_temperature.py (no parent directory)
BareTestFile == MkPath(<<>>, <<"test", "_", "temperature">>, ".py")

\* test/test_temperature.py
AltTestFile == MkPath(<<"test">>, <<"test", "_", "temperature">>, ".py")

\* package.json
JsonFile == MkPath(<<>>, <<"package">>, ".json")

\* tests/Test_Temperature.py
CapsTestFile == MkPath(<<"tests">>, <<"Test", "_", "Temperature">>, ".py")

\* tests/temperature.spec.js
SpecFile == MkPath(<<"tests">>, <<"temperature", ".", "spec">>, ".js")

\* tests/test_other.py
OtherTestFile == MkPath(<<"tests">>, <<"test", "_", "other">>, ".py")

\* tests/test_temperature.md
DocFile == MkPath(<<"tests">>, <<"test", "_", "temperature">>, ".md")

\* temperature_spec.py
SpecPyFile == MkPath(<<>>, <<"temperature", "_", "spec">>, ".py")

\* an entry named tests that is not a directory
TestsEntry == MkPath(<<>>, <<"tests">>, "")

\* str.lower() on one word of a name
LowerWord(w) ==
    CASE w = "Test" -> "test"
      [] w = "Temperature" -> "temperature"
      [] OTHER -> w

\* str.lower() on a name
Lower(name) == [i \in DOMAIN name |-> LowerWord(name[i])]

\* Path(f).name.lower() contains "test" or "spec"
is_test_file(f) == \E i \in DOMAIN f.stem : Lower(f.stem)[i] \in {"test", "spec"}

\* "test" in Path(f).stem.lower()
StemHasTest(f) == \E i \in DOMAIN f.stem : Lower(f.stem)[i] = "test"

\* not file_path_obj.parent or str(file_path_obj.parent) == "."
HasNoParent(f) == f.dir = <<>>

\* ------------------------------------------------------------------ inputs

\* The issue argument, abstracted to what the phases read of it: whether it is
\* empty, an issue number or free text, and the file names the text mentions.
IssueEmpty == [kind |-> "empty", mentions |-> {}]

IssueNumber == [kind |-> "number", mentions |-> {}]

IssueText == [kind |-> "text", mentions |-> {SrcFile}]

IssueVague == [kind |-> "text", mentions |-> {}]

IssueInputs == {IssueEmpty, IssueNumber, IssueText, IssueVague}

\* Bodies the issue source can return for an issue number ("" is a missing body).
FetchedBodies == {IssueEmpty, IssueText}

\* Working copies a clone can produce: file -> content.
RepoWithTests == (SrcFile :> "orig") @@ (TestFile :> "orig")

RepoWithoutTests == (SrcFile :> "orig")

InitialRepos == {RepoWithTests, RepoWithoutTests}

\* Directories of a working copy that holds the files of d.
DirsOf(d) == {f.dir : f \in DOMAIN d} \ {<<>>}

\* ------------------------------------------------------------------- state

VARIABLES
    pc,                     \* graph position of the current run
    retry_count,            \* SDTAgent.retry_count
    include_commit_and_pr,  \* run_workflow's argument
    github_issue,           \* WorkflowState fields
    plan,
    code_changes,
    test_results,
    lint_results,
    passed,
    last_errors,
    repo_exists,            \* GitHubIssue/<repo> is a directory
    disk,                   \* working copy: file -> content
    dirs,                   \* working copy: directories that exist
    remote_calls,           \* calls made by the commit phase in this run
    trace,                  \* phases executed in this run, in order
    edges,                  \* results of should_retry in this run, in order
    tl_hist,                \* per test_and_lint execution of this run: its report
    start_retry,            \* retry_count when this run started
    runs,                   \* runs started on this engine instance
    classified,             \* kind of answer the classification call gave in this run
    skipped,                \* targets of the last generation phase whose call raised or returned nothing
    arg,                    \* a helper applied on its own: the call's arguments
    ret,                    \* ... and what the call returned
    result                  \* what run_workflow returned for the last run

wstate == <<github_issue, plan, code_changes, test_results, lint_results,
            passed, last_errors>>

fs == <<repo_exists, disk, dirs>>

ghost == <<remote_calls, trace, edges, tl_hist, start_retry, runs, classified,
           skipped, arg, ret, result>>

vars == <<pc, retry_count, include_commit_and_pr, wstate, fs, ghost>>

Phases == {"issue_analysis", "project_understanding", "planning",
           "main_code_generation", "test_and_lint", "commit_and_pr"}

\* SDTAgent.__init__: no run yet, no working copy.
\* No helper is applied on its own.
NoCall == [fn |-> "none", files |-> <<>>, mentions |-> {}, outcome |-> <<>>]

Init ==
    /\ pc = "idle"
    /\ retry_count = 0
    /\ include_commit_and_pr = TRUE
    /\ github_issue = IssueEmpty
    /\ plan = None
    /\ code_changes = None
    /\ test_results = None
    /\ lint_results = None
    /\ passed = None
    /\ last_errors = None
    /\ repo_exists = FALSE
    /\ disk = <<>>
    /\ dirs = {}
    /\ remote_calls = <<>>
    /\ trace = <<>>
    /\ edges = <<>>
    /\ tl_hist = <<>>
    /\ start_retry = 0
    /\ runs = 0
    /\ classified = "none"
    /\ skipped = {}
    /\ arg = NoCall
    /\ ret = <<>>
    /\ result = "none"

\* Mutant of Abort: the state is returned although a phase raised.
AbortReturnsState(phase) ==
    /\ pc' = "FAILED"
    /\ result' = "state"
    /\ trace' = Append(trace, phase)

\* A phase raised: workflow.invoke propagates it and run_workflow returns None.
Abort(phase) ==
    /\ pc' = "FAILED"
    /\ result' = "None"
    /\ trace' = Append(trace, phase)

\* A phase returned; the graph moves to `next`.
Advance(phase, next) ==
    /\ pc' = next
    /\ result' = result
    /\ trace' = Append(trace, phase)

\* Variant of RunWorkflow that also clears the engine's retry counter when a
\* run starts; a second run would then get a fresh budget.
RunWorkflowResetsCount ==
    /\ pc \in {"idle", END, "FAILED"}
    /\ runs < MaxRuns
    /\ \E issue \in IssueInputs, inc \in BOOLEAN :
        /\ github_issue' = issue
        /\ include_commit_and_pr' = inc
    /\ plan' = None
    /\ code_changes' = None
    /\ test_results' = None
    /\ lint_results' = None
    /\ passed' = None
    /\ last_errors' = None
    /\ pc' = "issue_analysis"
    /\ remote_calls' = <<>>
    /\ trace' = <<>>
    /\ edges' = <<>>
    /\ tl_hist' = <<>>
    /\ start_retry' = retry_count
    /\ runs' = runs + 1
    /\ classified' = "none"
    /\ skipped' = {}
    /\ UNCHANGED <<arg, ret>>
    /\ result' = "none"
    /\ retry_count' = 0
    /\ UNCHANGED fs

\* Variant of RunWorkflow whose caller hands in a state that may already hold
\* error text instead of a fresh one.
RunWorkflowAnyErrors ==
    /\ pc \in {"idle", END, "FAILED"}
    /\ runs < MaxRuns
    /\ \E issue \in IssueInputs, inc \in BOOLEAN :
        /\ github_issue' = issue
        /\ include_commit_and_pr' = inc
    /\ plan' = None
    /\ code_changes' = None
    /\ test_results' = None
    /\ lint_results' = None
    /\ passed' = None
    /\ pc' = "issue_analysis"
    /\ remote_calls' = <<>>
    /\ trace' = <<>>
    /\ edges' = <<>>
    /\ tl_hist' = <<>>
    /\ start_retry' = retry_count
    /\ runs' = runs + 1
    /\ classified' = "none"
    /\ skipped' = {}
    /\ UNCHANGED <<arg, ret>>
    /\ result' = "none"
    /\ last_errors' \in {None, Some(<<[what |-> "Test failure", file |-> TestFile, text |-> "failed"]>>)}
    /\ UNCHANGED <<retry_count, fs>>

\* run_workflow: a fresh WorkflowState enters the graph at its entry point. The
\* engine instance, and with it retry_count, is the caller's.
RunWorkflow ==
    /\ pc \in {"idle", END, "FAILED"}
    /\ runs < MaxRuns
    /\ \E issue \in IssueInputs, inc \in BOOLEAN :
        /\ github_issue' = issue
        /\ include_commit_and_pr' = inc
    /\ plan' = None
    /\ code_changes' = None
    /\ test_results' = None
    /\ lint_results' = None
    /\ passed' = None
    /\ last_errors' = None
    /\ pc' = "issue_analysis"
    /\ remote_calls' = <<>>
    /\ trace' = <<>>
    /\ edges' = <<>>
    /\ tl_hist' = <<>>
    /\ start_retry' = retry_count
    /\ runs' = runs + 1
    /\ classified' = "none"
    /\ skipped' = {}
    /\ UNCHANGED <<arg, ret>>
    /\ result' = "none"
    /\ UNCHANGED <<retry_count, fs>>

\* CloneProjectRepoNode.run: clone unless the destination exists; git clone
\* runs with check=True, so a failed clone raises.
CloneProjectRepo ==
    /\ pc = "issue_analysis"
    /\ IF repo_exists
       THEN /\ UNCHANGED fs
            /\ Advance("issue_analysis", "project_understanding")
       ELSE \E cloned \in BOOLEAN, repo \in InitialRepos :
            IF cloned
            THEN /\ repo_exists' = TRUE
                 /\ disk' = repo
                 /\ dirs' = DirsOf(repo)
                 /\ Advance("issue_analysis", "project_understanding")
            ELSE /\ UNCHANGED fs
                 /\ Abort("issue_analysis")
    /\ UNCHANGED <<retry_count, include_commit_and_pr, wstate, remote_calls,
                   edges, tl_hist, start_retry, runs,
                   classified, skipped, arg, ret>>

\* RetrieveIssueDetailsNode.run
RetrieveIssueDetails ==
    /\ pc = "project_understanding"
    /\ IF github_issue.kind = "number"
       THEN \E has_token \in BOOLEAN, fetched \in BOOLEAN,
               body \in FetchedBodies, open \in BOOLEAN :
            IF has_token /\ fetched /\ body.kind # "empty" /\ open
            THEN /\ github_issue' = body
                 /\ Advance("project_understanding", "planning")
            ELSE /\ UNCHANGED github_issue
                 /\ Abort("project_understanding")
       ELSE IF github_issue.kind = "empty"
            THEN /\ UNCHANGED github_issue
                 /\ Abort("project_understanding")
            ELSE /\ UNCHANGED github_issue
                 /\ Advance("project_understanding", "planning")
    /\ UNCHANGED <<retry_count, include_commit_and_pr, plan, code_changes,
                   test_results, lint_results, passed, last_errors, fs,
                   remote_calls, edges, tl_hist, start_retry, runs,
                   classified, skipped, arg, ret>>

\* ---------------------------------------------------------------- planning

\* A path as it is written in a plan: the path and whether the text starts
\* with "./".
Spelled(f, dot) == [dir |-> f.dir, stem |-> f.stem, ext |-> f.ext, dot |-> dot]

\* Path(file_path): the leading "./" is not part of the path.
PathOf(raw) == MkPath(raw.dir, raw.stem, raw.ext)

\* str(path): the text never starts with "./".
Str(f) == Spelled(f, FALSE)

\* Mutant of get_test_dir_call: test/ is preferred.
get_test_dir_call_PrefersTest(ds, blocked) ==
    IF <<"test">> \in ds THEN [raises |-> FALSE, dir |-> <<"test">>]
    ELSE IF <<"tests">> \in ds THEN [raises |-> FALSE, dir |-> <<"tests">>]
    ELSE [raises |-> blocked, dir |-> <<"tests">>]

\* helpers.get_test_dir on a working copy whose directories are ds: tests/ if
\* it is a directory, else test/ if it is one, else tests/, which it creates
\* with mkdir(parents=True, exist_ok=True); that call raises when an entry named
\* tests exists and is not a directory (blocked).
get_test_dir_call(ds, blocked) ==
    IF <<"tests">> \in ds THEN [raises |-> FALSE, dir |-> <<"tests">>]
    ELSE IF <<"test">> \in ds THEN [raises |-> FALSE, dir |-> <<"test">>]
    ELSE [raises |-> blocked, dir |-> <<"tests">>]

\* helpers.get_test_dir on a working copy without such an entry: the
\* directory it returns.
get_test_dir(ds) == get_test_dir_call(ds, FALSE).dir

\* The directories after get_test_dir has run: the returned one exists.
DirsAfterGetTestDir(ds) == ds \cup {get_test_dir(ds)}

\* Mutant of NormalizeOne: every path is put under the test directory.
NormalizeOneRelocatesAll(f, ds) == [f EXCEPT !.dir = get_test_dir(ds)]

\* Mutant of NormalizeOne: every path is kept.
NormalizeOneKeepsAll(f, ds) == f

\* One step of the normalization loop: a path with no parent is put under the
\* test directory, any other path is kept.
NormalizeOne(f, ds) ==
    IF HasNoParent(f) THEN [f EXCEPT !.dir = get_test_dir(ds)] ELSE f

\* The normalization loop over a list of test files.
NormalizeTestFiles(files, ds) ==
    [i \in DOMAIN files |-> NormalizeOne(files[i], ds)]

\* The normalization loop from the texts it reads to the texts it appends.
NormalizeSpelled(raws, ds) ==
    [i \in DOMAIN raws |-> Str(NormalizeOne(PathOf(raws[i]), ds))]

\* The directories after the loop: get_test_dir ran iff some path had no parent.
DirsAfterNormalize(files, ds) ==
    IF \E i \in DOMAIN files : HasNoParent(files[i])
    THEN DirsAfterGetTestDir(ds) ELSE ds

\* All paths of the model in the order sorted() gives their strings.
PathOrder == <<JsonFile, SrcFile, SpecPyFile, AltTestFile, BareTestFile, CapsTestFile,
               SpecFile, OtherTestFile, TestFile>>

\* sorted(S) for a set of paths
Sorted(S) ==
    LET In(f) == f \in S
    IN  SelectSeq(PathOrder, In)

\* `base in name`: the words of base occur contiguously in the words of name.
Contains(name, base) ==
    \E k \in 0..(Len(name) - Len(base)) :
        \A i \in 1..Len(base) : name[k + i] = base[i]

text_exts == {".py", ".js", ".ts", ".jsx", ".tsx", ".json"}

\* The repository walk: files with a recognized extension.
RepoFiles(d) == {f \in DOMAIN d : f.ext \in text_exts}

\* Mutant of RelevantTestFiles: names are compared as they are written.
RelevantTestFilesCaseSensitive(mentioned, repo_files) ==
    {rf \in repo_files :
        \E mf \in mentioned :
            /\ \E i \in DOMAIN rf.stem : rf.stem[i] \in {"test", "spec"}
            /\ Contains(rf.stem, mf.stem)}

\* Repository test files whose name refers to a mentioned file's stem.
RelevantTestFiles(mentioned, repo_files) ==
    {rf \in repo_files :
        \E mf \in mentioned :
            is_test_file(rf) /\ Contains(Lower(rf.stem), Lower(mf.stem))}

CandidateFiles(mentioned, repo_files) ==
    LET cand == Sorted(mentioned \cup RelevantTestFiles(mentioned, repo_files))
    IN  IF cand = <<>> THEN Sorted(repo_files) ELSE cand

MkPlan(rel, src, tst, flag) ==
    [relevant_files |-> rel, source_files |-> src, test_files |-> tst,
     is_test_generation_issue |-> flag]

\* What the classification call can do: answer with a parsed object, with an
\* empty string or with something that does not parse, or raise (the call is
\* made before the try block).
PlanAnswers ==
    { [kind |-> "dict", json |-> MkPlan(<<SrcFile, TestFile>>, <<SrcFile>>, <<TestFile>>, FALSE)],
      [kind |-> "dict", json |-> MkPlan(<<SrcFile>>, <<SrcFile>>, <<>>, FALSE)],
      [kind |-> "dict", json |-> MkPlan(<<>>, <<>>, <<>>, FALSE)],
      [kind |-> "dict", json |-> MkPlan(<<SrcFile, BareTestFile>>, <<SrcFile>>, <<BareTestFile>>, TRUE)],
      [kind |-> "dict", json |-> MkPlan(<<TestFile>>, <<>>, <<TestFile>>, FALSE)],
      [kind |-> "empty", json |-> EmptyDict],
      [kind |-> "unparsable", json |-> EmptyDict],
      [kind |-> "raises", json |-> EmptyDict] }

\* The plan before normalization: the answer, or the fallback on an empty or
\* unparsable answer.
ClassifiedPlan(answer, candidate_files) ==
    IF answer.kind = "dict" THEN answer.json
    ELSE MkPlan(candidate_files, candidate_files, <<>>, FALSE)

\* PlanningNode.run
Planning ==
    /\ pc = "planning"
    /\ IF ~repo_exists \/ github_issue.kind = "empty"
       THEN /\ UNCHANGED <<plan, dirs, classified>>
            /\ Abort("planning")
       ELSE \E answer \in PlanAnswers :
            LET cand == CandidateFiles(github_issue.mentions, RepoFiles(disk))
                p    == ClassifiedPlan(answer, cand)
            IN  /\ classified' = answer.kind
                /\ IF answer.kind = "raises"
                   THEN /\ UNCHANGED <<plan, dirs>>
                        /\ Abort("planning")
                   ELSE /\ plan' = Some([p EXCEPT !.test_files =
                                           NormalizeTestFiles(p.test_files, dirs)])
                        /\ dirs' = DirsAfterNormalize(p.test_files, dirs)
                        /\ Advance("planning", "main_code_generation")
    /\ UNCHANGED <<retry_count, include_commit_and_pr, github_issue,
                   code_changes, test_results, lint_results, passed,
                   last_errors, repo_exists, disk, remote_calls, edges,
                   tl_hist, start_retry, runs, skipped, arg, ret>>

\* -------------------------------------------------------------- generation

\* What the generation call can do for one file: raise, or answer with text
\* that may be wrapped in a markdown fence and may be empty.
GenOutcomes ==
    {[raises |-> TRUE, fence |-> FALSE, body |-> ""]} \cup
    {[raises |-> FALSE, fence |-> b, body |-> c] : b \in BOOLEAN, c \in {"", "gen"}}

\* helpers.code_header_remover: the text without its fence, stripped.
code_header_remover(raw) == raw.body

\* Mutant of WriteGenerated: whatever came back is written.
WriteGeneratedAlways(d, ds, f, o) == (f :> code_header_remover(o)) @@ d

\* The working copy after the generation loop has handled file f with outcome
\* o: the file is overwritten iff the call returned non-empty code and the
\* write succeeded (its directory exists).
WriteGenerated(d, ds, f, o) ==
    IF ~o.raises /\ code_header_remover(o) # "" /\ (f.dir = <<>> \/ f.dir \in ds)
    THEN (f :> code_header_remover(o)) @@ d
    ELSE d

\* The targets whose generation call raised or returned nothing once the fence
\* was removed.
Skipped(files, outcome) ==
    {f \in Range(files) : outcome[f].raises \/ code_header_remover(outcome[f]) = ""}

RECURSIVE GenerateAll(_, _, _, _)
GenerateAll(d, ds, files, outcome) ==
    IF files = <<>> THEN d
    ELSE GenerateAll(WriteGenerated(d, ds, Head(files), outcome[Head(files)]),
                     ds, Tail(files), outcome)

\* Mutant of AppendNew: the membership test is dropped.
AppendAll(updated, files) == updated \o files

\* Mutant of AppendNew: what is not yet listed is put in front.
RECURSIVE AppendNewInFront(_, _)
AppendNewInFront(updated, files) ==
    IF files = <<>> THEN updated
    ELSE AppendNewInFront(IF \E i \in DOMAIN updated : updated[i] = Head(files)
                          THEN updated ELSE <<Head(files)>> \o updated,
                          Tail(files))

\* The "accumulate updated_files" loop: append what is not yet listed.
RECURSIVE AppendNew(_, _)
AppendNew(updated, files) ==
    IF files = <<>> THEN updated
    ELSE AppendNew(IF \E i \in DOMAIN updated : updated[i] = Head(files)
                   THEN updated ELSE Append(updated, Head(files)),
                   Tail(files))

\* Mutant of AccumulateUpdated: a generation phase with nothing to generate
\* leaves the change record as it found it.
AccumulateUpdatedSkipsEmpty(cc, files) ==
    IF files = <<>> THEN cc
    ELSE LET base == IF cc = None THEN [updated_files |-> <<>>]
                     ELSE IF "updated_files" \in DOMAIN TheValue(cc) THEN TheValue(cc)
                     ELSE [updated_files |-> <<>>] @@ TheValue(cc)
         IN  Some([base EXCEPT !.updated_files = AppendNew(base.updated_files, files)])

\* code_changes after a generation phase over `files`.
AccumulateUpdated(cc, files) ==
    LET base == IF cc = None THEN [updated_files |-> <<>>]
                ELSE IF "updated_files" \in DOMAIN TheValue(cc) THEN TheValue(cc)
                ELSE [updated_files |-> <<>>] @@ TheValue(cc)
    IN  Some([base EXCEPT !.updated_files = AppendNew(base.updated_files, files)])

PlanDict == IF plan = None THEN EmptyDict ELSE TheValue(plan)

\* plan.get(key, [])
PlanList(key) == IF key \in DOMAIN PlanDict THEN PlanDict[key] ELSE <<>>

\* Mutant of CodeGeneration: the phase stores the prompt it built as the
\* issue.
CodeGenerationRewritesIssue ==
    /\ pc = "main_code_generation"
    /\ github_issue' = IssueVague
    /\ IF github_issue.kind = "empty"
       THEN UNCHANGED <<disk, code_changes, skipped>>
       ELSE LET source_files == PlanList("source_files")
            IN  \E outcome \in [Range(source_files) -> GenOutcomes] :
                /\ disk' = GenerateAll(disk, dirs, source_files, outcome)
                /\ skipped' = Skipped(source_files, outcome)
                /\ code_changes' = AccumulateUpdated(code_changes, source_files)
    /\ Advance("main_code_generation", "test_and_lint")
    /\ UNCHANGED <<retry_count, include_commit_and_pr, plan,
                   test_results, lint_results, passed, last_errors,
                   repo_exists, dirs, remote_calls, edges, tl_hist,
                   start_retry, runs, classified, arg, ret>>

\* CodeGenerationNode.run, the node build_phases registers as
\* main_code_generation.
CodeGeneration ==
    /\ pc = "main_code_generation"
    /\ IF github_issue.kind = "empty"
       THEN UNCHANGED <<disk, code_changes, skipped>>
       ELSE LET source_files == PlanList("source_files")
            IN  \E outcome \in [Range(source_files) -> GenOutcomes] :
                /\ disk' = GenerateAll(disk, dirs, source_files, outcome)
                /\ skipped' = Skipped(source_files, outcome)
                /\ code_changes' = AccumulateUpdated(code_changes, source_files)
    /\ Advance("main_code_generation", "test_and_lint")
    /\ UNCHANGED <<retry_count, include_commit_and_pr, github_issue, plan,
                   test_results, lint_results, passed, last_errors,
                   repo_exists, dirs, remote_calls, edges, tl_hist,
                   start_retry, runs, classified, arg, ret>>

\* --------------------------------------------------------- test generation

\* detect_language_from_context: both callers (the CLI and the benchmark
\* driver) build the project context with language "Python".
language == "python"

\* base_name with a leading "test_" removed
StripTestPrefix(stem) ==
    IF Len(stem) >= 2 /\ stem[1] = "test" /\ stem[2] = "_"
    THEN SubSeq(stem, 3, Len(stem)) ELSE stem

\* Mutant of InferredTestName: the stem is used as it is.
InferredTestNameKeepsPrefix(source_files) ==
    IF source_files # <<>>
    THEN MkPath(<<>>, <<"test", "_">> \o source_files[1].stem, ".py")
    ELSE MkPath(<<>>, <<"test", "_", "generated">>, ".py")

\* The test file name inferred when the plan carries no test file.
InferredTestName(source_files) ==
    IF source_files # <<>>
    THEN IF language = "python"
         THEN MkPath(<<>>, <<"test", "_">> \o StripTestPrefix(source_files[1].stem), ".py")
         ELSE MkPath(<<>>, StripTestPrefix(source_files[1].stem) \o <<".", "test">>, ".js")
    ELSE IF language = "python"
         THEN MkPath(<<>>, <<"test", "_", "generated">>, ".py")
         ELSE MkPath(<<>>, <<"generated", ".", "test">>, ".ts")

\* touch(exist_ok=True): an absent file is created empty.
Touch(d, f) == IF f \in DOMAIN d THEN d ELSE (f :> "") @@ d

\* The directories after path_obj.parent.mkdir(parents=True) for each file.
MkParents(ds, files) == ds \cup ({files[i].dir : i \in DOMAIN files} \ {<<>>})

\* plan.get("test_files", []) and plan.get("source_files", [])
PlanTestFiles(pl) == IF "test_files" \in DOMAIN pl THEN pl.test_files ELSE <<>>

PlanSourceFiles(pl) == IF "source_files" \in DOMAIN pl THEN pl.source_files ELSE <<>>

\* The inferred test file, placed in the test directory.
InferredTestFile(pl, ds) ==
    [InferredTestName(PlanSourceFiles(pl)) EXCEPT !.dir = get_test_dir(ds)]

\* test_files before the normalization loop: the plan's list, or the single
\* inferred file when the plan has none.
ListedTestFiles(pl, ds) ==
    IF PlanTestFiles(pl) = <<>> THEN <<InferredTestFile(pl, ds)>> ELSE PlanTestFiles(pl)

\* The directories once the inferred file has been placed.
DirsAfterInfer(pl, ds) ==
    IF PlanTestFiles(pl) = <<>> THEN DirsAfterGetTestDir(ds) ELSE ds

\* The working copy once the inferred file has been touched.
DiskAfterInfer(pl, d, ds) ==
    IF PlanTestFiles(pl) = <<>> THEN Touch(d, InferredTestFile(pl, ds)) ELSE d

\* The files the generation loop of test_generation works on.
TestGenerationTargets(pl, ds) ==
    NormalizeTestFiles(ListedTestFiles(pl, ds), DirsAfterInfer(pl, ds))

\* The directories when the loop has created every target's parent.
TestGenerationDirs(pl, ds) ==
    MkParents(DirsAfterNormalize(ListedTestFiles(pl, ds), DirsAfterInfer(pl, ds)),
              TestGenerationTargets(pl, ds))

\* TestGenerationNode.run on the given plan, working copy and change record;
\* outcome gives, per target file, what the generation call does. The plan is
\* read only: the node never stores its target list back.
test_generation(pl, d, ds, cc, outcome) ==
    [disk         |-> GenerateAll(DiskAfterInfer(pl, d, ds), TestGenerationDirs(pl, ds),
                                  TestGenerationTargets(pl, ds), outcome),
     dirs         |-> TestGenerationDirs(pl, ds),
     code_changes |-> AccumulateUpdated(cc, TestGenerationTargets(pl, ds))]

\* TestGenerationNode() built without agent_respond: every generation call
\* raises (calling None) and is caught.
NoAgentOutcome(targets) ==
    [f \in Range(targets) |-> [raises |-> TRUE, fence |-> FALSE, body |-> ""]]

\* ------------------------------------------------------------ test and lint

\* What one execution of a test command can do: fail to start, or end with an
\* exit code and output.
ProcRun(rc, text) == [raises |-> FALSE, rc |-> rc, text |-> text]

CannotStart == [raises |-> TRUE, rc |-> 0, text |-> ""]

TestRuns == {ProcRun(0, "passed"), ProcRun(1, "failed"),
             ProcRun(5, "no tests ran"), ProcRun(1, "ModuleNotFoundError"),
             CannotStart}

LintRuns == {ProcRun(0, "clean"), ProcRun(1, "findings"), CannotStart}

\* The module-not-found signature in the captured stderr of a Python test.
ModuleMissing(f, run) ==
    f.ext = ".py" /\ ~run.raises /\ run.text = "ModuleNotFoundError"

\* A test file's outcome: its first execution and, used only after a
\* module-not-found failure, its re-execution.
TestOutcomes ==
    {[first |-> a, second |-> b] : a \in TestRuns, b \in TestRuns}

\* The runner is chosen by extension; .json and anything else is skipped.
HasRunner(f) == f.ext \in {".py", ".js", ".jsx", ".ts", ".tsx"}

\* Mutant of TestCommandRuns: the command is run again as long as a module is
\* missing.
TestCommandRunsWhileMissing(f, o) ==
    IF ModuleMissing(f, o.first)
    THEN IF ModuleMissing(f, o.second) THEN 3 ELSE 2
    ELSE 1

\* How often the loop body runs the test command of file f: once, and once
\* more after a module-not-found failure.
TestCommandRuns(f, o) == IF ModuleMissing(f, o.first) THEN 2 ELSE 1

\* How often the loop has run the test command of file f so far.
RunsOf(counts, f) == IF f \in DOMAIN counts THEN counts[f] ELSE 0

\* The execution whose result the loop body keeps for file f.
FinalRun(f, o) == IF ModuleMissing(f, o.first) THEN o.second ELSE o.first

\* One iteration of the test loop.
TestStep(acc, f, o) ==
    IF ~HasRunner(f) THEN acc
    ELSE LET run == FinalRun(f, o)
         IN  IF run.raises
             THEN [outputs |-> (f :> [rc |-> -1, text |-> "Test error"]) @@ acc.outputs,
                   passed  |-> FALSE,
                   errors  |-> Append(acc.errors, [what |-> "Test error", file |-> f, text |-> ""]),
                   runs    |-> (f :> (RunsOf(acc.runs, f) + TestCommandRuns(f, o))) @@ acc.runs]
             ELSE [outputs |-> (f :> [rc |-> run.rc, text |-> run.text]) @@ acc.outputs,
                   passed  |-> acc.passed /\ run.rc = 0,
                   errors  |-> IF run.rc # 0
                               THEN Append(acc.errors, [what |-> "Test failure", file |-> f, text |-> run.text])
                               ELSE acc.errors,
                   runs    |-> (f :> (RunsOf(acc.runs, f) + TestCommandRuns(f, o))) @@ acc.runs]

\* The test loop over the entries of files, the i-th entry's executions
\* ending as touts[i].
RECURSIVE TestLoopAt(_, _, _)
TestLoopAt(acc, files, touts) ==
    IF files = <<>> THEN acc
    ELSE TestLoopAt(TestStep(acc, Head(files), Head(touts)), Tail(files), Tail(touts))

\* The test loop over a list that names each file once.
TestLoop(acc, files, tout) ==
    TestLoopAt(acc, files, [i \in DOMAIN files |-> tout[files[i]]])

\* The files the lint loop runs ruff on.
Lintable(f) == f.ext = ".py" /\ ~StemHasTest(f)

\* Mutant of LintStep: a lint command that cannot be started is passed over.
LintStepDropsErrors(acc, f, run) ==
    IF ~Lintable(f) \/ run.raises THEN acc
    ELSE [outputs |-> (f :> [rc |-> run.rc, text |-> run.text]) @@ acc.outputs,
          passed  |-> acc.passed /\ run.rc = 0,
          errors  |-> IF run.rc # 0
                      THEN Append(acc.errors, [what |-> "Lint failure", file |-> f, text |-> ""])
                      ELSE acc.errors]

\* One iteration of the lint loop.
LintStep(acc, f, run) ==
    IF ~Lintable(f) THEN acc
    ELSE IF run.raises
         THEN [outputs |-> (f :> [rc |-> -1, text |-> "Lint error"]) @@ acc.outputs,
               passed  |-> FALSE,
               errors  |-> Append(acc.errors, [what |-> "Lint error", file |-> f, text |-> ""])]
         ELSE [outputs |-> (f :> [rc |-> run.rc, text |-> run.text]) @@ acc.outputs,
               passed  |-> acc.passed /\ run.rc = 0,
               errors  |-> IF run.rc # 0
                           THEN Append(acc.errors, [what |-> "Lint failure", file |-> f, text |-> ""])
                           ELSE acc.errors]

RECURSIVE LintLoop(_, _, _)
LintLoop(acc, files, lout) ==
    IF files = <<>> THEN acc
    ELSE LintLoop(LintStep(acc, Head(files),
                           IF Lintable(Head(files)) THEN lout[Head(files)] ELSE CannotStart),
                  Tail(files), lout)

\* [f for f in files if Path(project_path, f).is_file()]
Existing(files, d) ==
    LET IsFile(f) == f \in DOMAIN d
    IN  SelectSeq(files, IsFile)

\* [f for f in relevant_files if is_test_file(f)]
TestLike(files) == SelectSeq(files, is_test_file)

\* "\n\n".join(error_accum) if error_accum else None
JoinErrors(error_accum) == IF error_accum = <<>> THEN None ELSE Some(error_accum)

\* The test files found without generating any: the plan's test files that
\* exist; else the relevant files that look like tests and exist.
FallbackTestFiles(pl, d) ==
    IF Existing(pl.test_files, d) = <<>>
    THEN Existing(TestLike(pl.relevant_files), d)
    ELSE Existing(pl.test_files, d)

\* The third fallback: after test generation, the plan's test files that exist.
AfterGeneration(pl, gen) ==
    [files |-> Existing(PlanTestFiles(pl), gen.disk), disk |-> gen.disk,
     dirs |-> gen.dirs, code_changes |-> gen.code_changes]

\* The test files test_and_lint runs, with the working copy and change record
\* after resolving them. Test generation runs on a node built without a
\* generation call.
ResolveTestFiles(pl, d, ds, cc) ==
    IF FallbackTestFiles(pl, d) # <<>>
    THEN [files |-> FallbackTestFiles(pl, d), disk |-> d, dirs |-> ds,
          code_changes |-> cc]
    ELSE AfterGeneration(pl, test_generation(pl, d, ds, cc,
                                 NoAgentOutcome(TestGenerationTargets(pl, ds))))

\* Mutant of NoRuns: the output map starts with an entry left by an earlier
\* execution.
NoRunsStale ==
    [outputs |-> (JsonFile :> [rc |-> 1, text |-> "failed"]),
     passed |-> TRUE, errors |-> <<>>, runs |-> <<>>]

\* The accumulators a loop of test_and_lint starts with: test_outputs = {} or
\* lint_outputs = {}, the pass flag true, error_accum = [].
NoRuns == [outputs |-> <<>>, passed |-> TRUE, errors |-> <<>>, runs |-> <<>>]

\* Mutant of NoTestsRan: the phrase is only honoured on a zero exit code.
NoTestsRanCleanExit(outputs) ==
    \E f \in DOMAIN outputs : outputs[f].text = "no tests ran" /\ outputs[f].rc = 0

\* any("no tests ran" in v.lower() for v in test_outputs.values())
NoTestsRan(outputs) == \E f \in DOMAIN outputs : outputs[f].text = "no tests ran"

\* state.passed on the normal exit
OverallPassed(tests_passed, lint_passed) == tests_passed /\ lint_passed

\* The three exits of TestAndLintNode.run past its repository check, given
\* the resolved test files res and the accumulated results of the test loop
\* and of the lint loop (whose error list continues the test loop's). pa and
\* le are the state's passed and last_errors on entry, kept by the exits that
\* do not assign them.
TestAndLintExit(res, tests, lint, pa, le) ==
    [disk |-> res.disk, dirs |-> res.dirs, code_changes |-> res.code_changes,
     runs |-> tests.runs] @@
    (IF res.files = <<>>
     THEN [test_results |-> Some([test_outputs |-> <<>>, tests_passed |-> TRUE]),
           lint_results |-> Some([lint_outputs |-> <<>>, lint_passed |-> TRUE]),
           passed       |-> pa,
           last_errors  |-> le,
           exit         |-> "no_test_files"]
     ELSE IF NoTestsRan(tests.outputs)
     THEN [test_results |-> Some([test_outputs |-> tests.outputs, tests_passed |-> TRUE]),
           lint_results |-> Some([lint_outputs |-> lint.outputs, lint_passed |-> lint.passed]),
           passed       |-> Some(TRUE),
           last_errors  |-> le,
           exit         |-> "no_tests_ran"]
     ELSE [test_results |-> Some([test_outputs |-> tests.outputs, tests_passed |-> tests.passed]),
           lint_results |-> Some([lint_outputs |-> lint.outputs, lint_passed |-> lint.passed]),
           passed       |-> Some(OverallPassed(tests.passed, lint.passed)),
           last_errors  |-> JoinErrors(lint.errors),
           exit         |-> "normal"])

\* The lint loop, entered with the errors the test loop accumulated.
LintAfter(tests, pl, lout) ==
    LintLoop([NoRuns EXCEPT !.errors = tests.errors], pl.relevant_files, lout)

TestAndLintLoops(res, tests, pl, pa, le, lout) ==
    TestAndLintExit(res, tests, LintAfter(tests, pl, lout), pa, le)

TestAndLintOn(res, pl, pa, le, tout, lout) ==
    TestAndLintLoops(res, TestLoop(NoRuns, res.files, tout), pl, pa, le, lout)

\* TestAndLintNode.run past its repository check, for a plan with relevant
\* files: the fields it leaves in the state.
test_and_lint(pl, d, ds, cc, pa, le, tout, lout) ==
    TestAndLintOn(ResolveTestFiles(pl, d, ds, cc), pl, pa, le, tout, lout)

\* The files whose lint outcome is drawn.
LintTargets(pl) == {f \in Range(pl.relevant_files) : Lintable(f)}

\* The report of one test_and_lint execution, kept in tl_hist: the exit path
\* taken and the tests_passed it left.
Report(r) ==
    [exit         |-> r.exit,
     tests_passed |-> Get(TheValue(r.test_results), "tests_passed")]

\* The state assignments of a test_and_lint execution that returned r.
TestAndLintReturn(r) ==
    /\ test_results' = r.test_results
    /\ lint_results' = r.lint_results
    /\ passed' = r.passed
    /\ last_errors' = r.last_errors
    /\ code_changes' = r.code_changes
    /\ disk' = r.disk
    /\ dirs' = r.dirs
    /\ tl_hist' = Append(tl_hist, Report(r))
    /\ Advance("test_and_lint", "should_retry")

\* The test files whose outcome is drawn.
TestTargets(pl, d, ds) == Range(ResolveTestFiles(pl, d, ds, None).files)

\* TestAndLintNode.run
TestAndLint ==
    /\ pc = "test_and_lint"
    /\ IF PlanList("relevant_files") = <<>>
       THEN /\ test_results' = Some(EmptyDict)
            /\ lint_results' = Some(EmptyDict)
            /\ passed' = None
            /\ tl_hist' = Append(tl_hist,
                   [exit |-> "not_applicable", tests_passed |-> None])
            /\ Advance("test_and_lint", "should_retry")
            /\ UNCHANGED <<last_errors, code_changes, disk, dirs>>
       ELSE IF ~repo_exists
       THEN /\ Abort("test_and_lint")
            /\ UNCHANGED <<test_results, lint_results, passed, last_errors,
                           code_changes, disk, dirs, tl_hist>>
       ELSE \E tout \in [TestTargets(PlanDict, disk, dirs) -> TestOutcomes],
               lout \in [LintTargets(PlanDict) -> LintRuns] :
                TestAndLintReturn(test_and_lint(PlanDict, disk, dirs, code_changes,
                                                passed, last_errors, tout, lout))
    /\ UNCHANGED <<retry_count, include_commit_and_pr, github_issue, plan,
                   repo_exists, remote_calls, edges, start_retry, runs,
                   classified, skipped, arg, ret>>

\* ------------------------------------------------------ the conditional edge

\* state.test_results and state.test_results.get("tests_passed")
TestsPassedTruthy(tr) == DictTruthy(tr) /\ GetTruthy(TheValue(tr), "tests_passed")

\* Mutant of TestsFailed: the `not` is dropped.
TestsFailedNotDropped(tr) == DictTruthy(tr) /\ GetTruthy(TheValue(tr), "tests_passed")

\* state.test_results and not state.test_results.get("tests_passed")
TestsFailed(tr) == DictTruthy(tr) /\ ~GetTruthy(TheValue(tr), "tests_passed")

\* Mutants of BudgetLeft: the comparison is off by one, either way.
BudgetLeftInclusive(count) == count <= max_retries

BudgetLeftShort(count) == count + 1 < max_retries

\* Mutant of BudgetLeft: two retries too many.
BudgetLeftGenerous(count) == count < max_retries + 2

\* The retry budget test: retry_attempt < self.max_retries
BudgetLeft(count) == count < max_retries

\* Mutants of should_retry. CountsFirst increments retry_count before the
\* budget test; KeepsOnGiveUp and KeepsOnSuccess each omit one of the two
\* assignments of None to last_errors; AlwaysCommits goes to commit_and_pr
\* whenever the commit phase is enabled; ToPlanning retries from planning.
should_retry_CountsFirst(tr, count, inc) ==
    IF DictTruthy(tr) /\ ~GetTruthy(TheValue(tr), "tests_passed")
    THEN IF count < max_retries
         THEN [next |-> "main_code_generation", retry_count |-> count + 1, clear |-> FALSE]
         ELSE [next |-> END, retry_count |-> count + 1, clear |-> TRUE]
    ELSE [next        |-> IF inc /\ DictTruthy(tr) /\ GetTruthy(TheValue(tr), "tests_passed")
                          THEN "commit_and_pr" ELSE END,
          retry_count |-> count,
          clear       |-> TRUE]

should_retry_KeepsOnGiveUp(tr, count, inc) ==
    IF DictTruthy(tr) /\ ~GetTruthy(TheValue(tr), "tests_passed")
    THEN IF count < max_retries
         THEN [next |-> "main_code_generation", retry_count |-> count + 1, clear |-> FALSE]
         ELSE [next |-> END, retry_count |-> count, clear |-> FALSE]
    ELSE [next        |-> IF inc /\ DictTruthy(tr) /\ GetTruthy(TheValue(tr), "tests_passed")
                          THEN "commit_and_pr" ELSE END,
          retry_count |-> count,
          clear       |-> TRUE]

should_retry_KeepsOnSuccess(tr, count, inc) ==
    IF DictTruthy(tr) /\ ~GetTruthy(TheValue(tr), "tests_passed")
    THEN IF count < max_retries
         THEN [next |-> "main_code_generation", retry_count |-> count + 1, clear |-> FALSE]
         ELSE [next |-> END, retry_count |-> count, clear |-> TRUE]
    ELSE [next        |-> IF inc /\ DictTruthy(tr) /\ GetTruthy(TheValue(tr), "tests_passed")
                          THEN "commit_and_pr" ELSE END,
          retry_count |-> count,
          clear       |-> FALSE]

should_retry_AlwaysCommits(tr, count, inc) ==
    IF DictTruthy(tr) /\ ~GetTruthy(TheValue(tr), "tests_passed")
    THEN IF count < max_retries
         THEN [next |-> "main_code_generation", retry_count |-> count + 1, clear |-> FALSE]
         ELSE [next |-> END, retry_count |-> count, clear |-> TRUE]
    ELSE [next        |-> IF inc THEN "commit_and_pr" ELSE END,
          retry_count |-> count,
          clear       |-> TRUE]

should_retry_ToPlanning(tr, count, inc) ==
    IF DictTruthy(tr) /\ ~GetTruthy(TheValue(tr), "tests_passed")
    THEN IF count < max_retries
         THEN [next |-> "planning", retry_count |-> count + 1, clear |-> FALSE]
         ELSE [next |-> END, retry_count |-> count, clear |-> TRUE]
    ELSE [next        |-> IF inc /\ DictTruthy(tr) /\ GetTruthy(TheValue(tr), "tests_passed")
                          THEN "commit_and_pr" ELSE END,
          retry_count |-> count,
          clear       |-> TRUE]

\* Mutant of should_retry: a retry costs two.
should_retry_CountsTwice(tr, count, inc) ==
    IF DictTruthy(tr) /\ ~GetTruthy(TheValue(tr), "tests_passed")
    THEN IF count < max_retries
         THEN [next |-> "main_code_generation", retry_count |-> count + 2, clear |-> FALSE]
         ELSE [next |-> END, retry_count |-> count, clear |-> TRUE]
    ELSE [next        |-> IF inc /\ DictTruthy(tr) /\ GetTruthy(TheValue(tr), "tests_passed")
                          THEN "commit_and_pr" ELSE END,
          retry_count |-> count,
          clear       |-> TRUE]

\* Mutant of should_retry: every routing decision counts as a retry.
should_retry_CountsEveryRoute(tr, count, inc) ==
    IF DictTruthy(tr) /\ ~GetTruthy(TheValue(tr), "tests_passed")
    THEN IF count < max_retries
         THEN [next |-> "main_code_generation", retry_count |-> count + 1, clear |-> FALSE]
         ELSE [next |-> END, retry_count |-> count, clear |-> TRUE]
    ELSE [next        |-> IF inc /\ DictTruthy(tr) /\ GetTruthy(TheValue(tr), "tests_passed")
                          THEN "commit_and_pr" ELSE END,
          retry_count |-> Min(count + 1, max_retries),
          clear       |-> TRUE]

\* Mutant of should_retry: the run configuration is not consulted.
should_retry_IgnoresConfig(tr, count, inc) ==
    IF DictTruthy(tr) /\ ~GetTruthy(TheValue(tr), "tests_passed")
    THEN IF count < max_retries
         THEN [next |-> "main_code_generation", retry_count |-> count + 1, clear |-> FALSE]
         ELSE [next |-> END, retry_count |-> count, clear |-> TRUE]
    ELSE [next        |-> IF DictTruthy(tr) /\ GetTruthy(TheValue(tr), "tests_passed")
                          THEN "commit_and_pr" ELSE END,
          retry_count |-> count,
          clear       |-> TRUE]

\* Mutant of should_retry: a run that gives up still goes to the commit phase.
should_retry_CommitsOnGiveUp(tr, count, inc) ==
    IF DictTruthy(tr) /\ ~GetTruthy(TheValue(tr), "tests_passed")
    THEN IF count < max_retries
         THEN [next |-> "main_code_generation", retry_count |-> count + 1, clear |-> FALSE]
         ELSE [next |-> IF inc THEN "commit_and_pr" ELSE END,
               retry_count |-> count, clear |-> TRUE]
    ELSE [next        |-> IF inc /\ DictTruthy(tr) /\ GetTruthy(TheValue(tr), "tests_passed")
                          THEN "commit_and_pr" ELSE END,
          retry_count |-> count,
          clear       |-> TRUE]

\* Mutant of should_retry: the error text is cleared on the retry edge too.
should_retry_ClearsOnRetry(tr, count, inc) ==
    IF DictTruthy(tr) /\ ~GetTruthy(TheValue(tr), "tests_passed")
    THEN IF count < max_retries
         THEN [next |-> "main_code_generation", retry_count |-> count + 1, clear |-> TRUE]
         ELSE [next |-> END, retry_count |-> count, clear |-> TRUE]
    ELSE [next        |-> IF inc /\ DictTruthy(tr) /\ GetTruthy(TheValue(tr), "tests_passed")
                          THEN "commit_and_pr" ELSE END,
          retry_count |-> count,
          clear       |-> TRUE]

\* SDTAgent.should_retry: the node it returns, the retry count it leaves and
\* whether it sets state.last_errors to None.
should_retry(tr, count, inc) ==
    IF TestsFailed(tr)
    THEN IF BudgetLeft(count)
         THEN [next |-> "main_code_generation", retry_count |-> count + 1, clear |-> FALSE]
         ELSE [next |-> END, retry_count |-> count, clear |-> TRUE]
    ELSE [next        |-> IF inc /\ TestsPassedTruthy(tr) THEN "commit_and_pr" ELSE END,
          retry_count |-> count,
          clear       |-> TRUE]

\* The conditional edge out of test_and_lint.
ShouldRetry ==
    /\ pc = "should_retry"
    /\ LET r == should_retry(test_results, retry_count, include_commit_and_pr)
       IN  /\ pc' = r.next
           /\ retry_count' = r.retry_count
           /\ last_errors' = IF r.clear THEN None ELSE last_errors
           /\ edges' = Append(edges, r.next)
           /\ result' = IF r.next = END THEN "state" ELSE result
    /\ UNCHANGED <<include_commit_and_pr, github_issue, plan, code_changes,
                   test_results, lint_results, passed, fs, remote_calls,
                   trace, tl_hist, start_retry, runs,
                   classified, skipped, arg, ret>>

\* ------------------------------------------------------------------- commit

\* list(set(changed_files)) for a change record, as a set
ChangedFiles(cc) ==
    (IF "created_file" \in DOMAIN cc THEN {cc.created_file} ELSE {}) \cup
    (IF "updated_files" \in DOMAIN cc THEN Range(cc.updated_files) ELSE {})

\* Mutant of CommitGate: the gate only asks for a test report.
CommitGateAnyReport(tr) == tr # None

\* The commit phase's gate.
CommitGate(tr) == TestsPassedTruthy(tr)

\* The repository calls CommitAndPRNode.run makes, in order, when every one of
\* them returns: files are the changed files that could be read.
ApiCalls(files) ==
    <<"get_repo", "get_branch", "get_git_ref">> \o
    (IF files = {} THEN <<>>
     ELSE <<"create_git_tree", "get_git_commit", "create_git_commit", "ref.edit">>)

\* The most repository calls one execution makes.
MaxApiCalls == Len(ApiCalls({SrcFile}))

\* fail_at = 0: no call raises; fail_at = k: the k-th repository call raises.
ApiRaises(fail_at, files) == fail_at \in 1..Len(ApiCalls(files))

\* The calls CommitAndPRNode.run makes, in order, when the gate is open: msg
\* says whether a commit message has to be generated, llm_ok whether that call
\* returns. A call that raises is listed, followed by "raised".
CommitCalls(msg, llm_ok, fail_at, files) ==
    IF msg /\ ~llm_ok THEN <<"agent_respond", "raised">>
    ELSE (IF msg THEN <<"agent_respond">> ELSE <<>>) \o
         (IF ApiRaises(fail_at, files)
          THEN SubSeq(ApiCalls(files), 1, fail_at) \o <<"raised">>
          ELSE ApiCalls(files))

\* CommitAndPRNode.run
CommitAndPR ==
    /\ pc = "commit_and_pr"
    /\ IF ~CommitGate(test_results)
       THEN /\ UNCHANGED <<code_changes, remote_calls>>
            /\ pc' = END
            /\ result' = "state"
       ELSE IF code_changes = None
       THEN /\ UNCHANGED <<code_changes, remote_calls>>
            /\ pc' = "FAILED"
            /\ result' = "None"
       ELSE \E llm_ok \in BOOLEAN, fail_at \in 0..MaxApiCalls,
               readable \in SUBSET ChangedFiles(TheValue(code_changes)) :
            LET cc  == TheValue(code_changes)
                msg == ~("commit_message" \in DOMAIN cc /\ cc.commit_message # "")
                ok  == (msg => llm_ok) /\ ~ApiRaises(fail_at, readable)
            IN  /\ remote_calls' = remote_calls \o CommitCalls(msg, llm_ok, fail_at, readable)
                /\ code_changes' = IF msg /\ llm_ok
                                   THEN Some([commit_message |-> "message"] @@ cc)
                                   ELSE code_changes
                /\ pc' = IF ok THEN END ELSE "FAILED"
                /\ result' = IF ok THEN "state" ELSE "None"
    /\ trace' = Append(trace, "commit_and_pr")
    /\ UNCHANGED <<retry_count, include_commit_and_pr, github_issue, plan,
                   test_results, lint_results, passed, last_errors, fs, edges,
                   tl_hist, start_retry, runs, classified, skipped,
                   arg, ret>>

\* ------------------------------------------------------------ specification

Next ==
    \/ RunWorkflow
    \/ CloneProjectRepo
    \/ RetrieveIssueDetails
    \/ Planning
    \/ CodeGeneration
    \/ TestAndLint
    \/ ShouldRetry
    \/ CommitAndPR

Spec == Init /\ [][Next]_vars

\* The positions of the graph of a run.
Positions == Phases \cup {"should_retry", END, "FAILED"}

\* A run is in progress.
Running == pc \in Phases \cup {"should_retry"}

\* A step of the run in progress: the phase or the conditional edge at the
\* current position returns or raises, which moves the run to another position.
Step == Running /\ pc' \in Positions \ {pc}

\* An engine about to start one run: its earlier runs left any retry count
\* and either no working copy or a cloned one.
LiveInit ==
    /\ pc = "idle"
    /\ retry_count \in 0..max_retries
    /\ include_commit_and_pr = TRUE
    /\ github_issue = IssueEmpty
    /\ plan = None
    /\ code_changes = None
    /\ test_results = None
    /\ lint_results = None
    /\ passed = None
    /\ last_errors = None
    /\ \E repo \in InitialRepos \cup {<<>>} :
        /\ repo_exists = (repo # <<>>)
        /\ disk = repo
        /\ dirs = DirsOf(repo)
    /\ remote_calls = <<>>
    /\ trace = <<>>
    /\ edges = <<>>
    /\ tl_hist = <<>>
    /\ start_retry = retry_count
    /\ runs = MaxRuns - 1
    /\ classified = "none"
    /\ skipped = {}
    /\ arg = NoCall
    /\ ret = <<>>
    /\ result = "none"

\* The engine when every external call returns: workflow.invoke runs the
\* graph to its end, so a step that can be taken is taken. Starting a run is
\* the caller's choice.
SpecLive == LiveInit /\ [][Next]_vars /\ WF_pc(Step)

\* A node entered on any WorkflowState: the conditional edge or the commit
\* phase applied to a state whose fields are drawn from the values the phases
\* can leave in them, on an engine whose earlier runs left any retry count.
SomeErrors == <<[what |-> "Test failure", file |-> TestFile, text |-> "failed"]>>

NodeTestResults ==
    {None, Some(EmptyDict),
     Some([test_outputs |-> <<>>, tests_passed |-> TRUE]),
     Some([test_outputs |-> (TestFile :> [rc |-> 1, text |-> "failed"]),
           tests_passed |-> FALSE])}

NodeCodeChanges ==
    {None, Some([updated_files |-> <<SrcFile>>]),
     Some([updated_files |-> <<SrcFile>>, commit_message |-> "message"])}

NodeInit ==
    /\ pc \in {"should_retry", "commit_and_pr"}
    /\ retry_count \in 0..max_retries
    /\ include_commit_and_pr \in BOOLEAN
    /\ github_issue = IssueText
    /\ plan = Some(MkPlan(<<SrcFile, TestFile>>, <<SrcFile>>, <<TestFile>>, FALSE))
    /\ code_changes \in NodeCodeChanges
    /\ test_results \in NodeTestResults
    /\ lint_results = None
    /\ passed \in {None, Some(TRUE), Some(FALSE)}
    /\ last_errors \in {None, Some(SomeErrors)}
    /\ repo_exists = TRUE
    /\ disk = RepoWithTests
    /\ dirs = DirsOf(RepoWithTests)
    /\ remote_calls = <<>>
    /\ trace = <<>>
    /\ edges = <<>>
    /\ tl_hist = <<>>
    /\ start_retry = retry_count
    /\ runs = 1
    /\ classified = "dict"
    /\ skipped = {}
    /\ arg = NoCall
    /\ ret = <<>>
    /\ result = "none"

SpecNode == NodeInit /\ [][Next]_vars

\* ------------------------------------------------------ helpers on their own

\* One helper of the nodes applied to arguments of its own: which helper, and
\* the arguments that are not part of the workflow state or the working copy.
HelperCall(fn, files, mentions, outcome) ==
    [fn |-> fn, files |-> files, mentions |-> mentions, outcome |-> outcome]

\* The working copies get_test_dir is applied to: tests/ and test/ present or
\* not, and possibly an entry named tests that is not a directory.
TestDirLayouts ==
    {lay \in [dirs : SUBSET {<<"tests">>, <<"test">>},
              disk : {<<>>, (TestsEntry :> "orig")}] :
        ~(<<"tests">> \in lay.dirs /\ TestsEntry \in DOMAIN lay.disk)}

\* The test file texts a plan can list.
SpelledInputs ==
    {Spelled(f, dot) : f \in {BareTestFile, TestFile, AltTestFile}, dot \in BOOLEAN}

MaxListed == 2

SpelledLists ==
    UNION {[1..n -> SpelledInputs] : n \in 1..MaxListed}

\* The plans test generation is applied to.
GenerationPlans ==
    {MkPlan(src, src, tst, FALSE) :
        src \in {<<>>, <<SrcFile>>, <<BareTestFile>>, <<SrcFile, JsonFile>>},
        tst \in {<<>>, <<TestFile>>, <<BareTestFile>>}}

\* The working copies test generation is applied to.
GenerationRepos ==
    {RepoWithoutTests, RepoWithTests,
     (SrcFile :> "orig") @@ (AltTestFile :> "orig"),
     (SrcFile :> "orig") @@ (OtherTestFile :> "orig")}

\* The repositories the candidate selection is applied to.
CandidateRepos ==
    {[f \in S \cup {SrcFile} |-> "orig"] :
        S \in SUBSET {TestFile, CapsTestFile, SpecFile, OtherTestFile, DocFile}}

\* The test file lists the test loop is applied to.
LoopFiles == {<<TestFile>>, <<TestFile, JsonFile>>, <<TestFile, SpecFile>>,
              <<TestFile, TestFile>>}

\* The relevant file lists the lint loop is applied to.
LintLists == {<<SrcFile, TestFile>>, <<SrcFile, SpecPyFile>>, <<JsonFile, SrcFile>>}

HelperInit ==
    /\ pc = "call"
    /\ retry_count = 0
    /\ include_commit_and_pr = TRUE
    /\ github_issue = IssueText
    /\ code_changes = None
    /\ test_results = None
    /\ lint_results = None
    /\ passed = None
    /\ last_errors = None
    /\ repo_exists = TRUE
    /\ \/ /\ arg = HelperCall("get_test_dir", <<>>, {}, <<>>)
          /\ plan = None
          /\ \E lay \in TestDirLayouts : disk = lay.disk /\ dirs = lay.dirs
       \/ /\ arg \in {HelperCall("normalize", raws, {}, <<>>) : raws \in SpelledLists}
          /\ plan = None
          /\ disk = RepoWithoutTests
          /\ dirs \in SUBSET {<<"tests">>, <<"test">>}
       \/ /\ arg = HelperCall("test_generation", <<>>, {}, <<>>)
          /\ plan \in {Some(pl) : pl \in GenerationPlans}
          /\ disk \in GenerationRepos
          /\ dirs = DirsOf(disk)
       \/ /\ arg \in {HelperCall("candidates", <<>>, m, <<>>) :
                        m \in SUBSET {SrcFile, BareTestFile}}
          /\ plan = None
          /\ disk \in CandidateRepos
          /\ dirs = DirsOf(disk)
       \/ /\ arg \in {HelperCall("test_loop", files, {}, <<>>) : files \in LoopFiles}
          /\ plan = None
          /\ disk = RepoWithTests
          /\ dirs = DirsOf(disk)
       \/ /\ arg \in {HelperCall("lint_loop", files, {}, <<>>) : files \in LintLists}
          /\ plan = None
          /\ disk = RepoWithTests
          /\ dirs = DirsOf(disk)
    /\ remote_calls = <<>>
    /\ trace = <<>>
    /\ edges = <<>>
    /\ tl_hist = <<>>
    /\ start_retry = 0
    /\ runs = 1
    /\ classified = "none"
    /\ skipped = {}
    /\ ret = <<>>
    /\ result = "none"

\* What a helper call leaves alone; the call is recorded.
HelperFrame ==
    /\ trace' = Append(trace, arg.fn)
    /\ UNCHANGED <<retry_count, include_commit_and_pr, github_issue, plan,
                   test_results, lint_results, passed, last_errors, repo_exists,
                   remote_calls, edges, tl_hist, start_retry, runs,
                   classified, result>>

\* get_test_dir(project_path)
CallGetTestDir ==
    /\ pc = "call"
    /\ arg.fn = "get_test_dir"
    /\ LET o == get_test_dir_call(dirs, TestsEntry \in DOMAIN disk)
       IN  IF o.raises
           THEN /\ pc' = "raised"
                /\ UNCHANGED <<dirs, ret>>
           ELSE /\ pc' = "returned"
                /\ ret' = o.dir
                /\ dirs' = dirs \cup {o.dir}
    /\ UNCHANGED <<disk, code_changes, skipped, arg>>
    /\ HelperFrame

\* The normalization loop of the planning phase on a list of test files.
CallNormalize ==
    /\ pc = "call"
    /\ arg.fn = "normalize"
    /\ ret' = NormalizeSpelled(arg.files, dirs)
    /\ dirs' = DirsAfterNormalize(NormalizeTestFiles(
                   [i \in DOMAIN arg.files |-> PathOf(arg.files[i])], dirs), dirs)
    /\ pc' = "returned"
    /\ UNCHANGED <<disk, code_changes, skipped, arg>>
    /\ HelperFrame

\* The normalization loop of the test generation phase on the list the
\* planning phase stored.
CallNormalizeAgain ==
    /\ pc = "returned"
    /\ arg.fn = "normalize"
    /\ Len(trace) = 1
    /\ ret' = NormalizeSpelled(ret, dirs)
    /\ dirs' = DirsAfterNormalize([i \in DOMAIN ret |-> PathOf(ret[i])], dirs)
    /\ pc' = "returned"
    /\ UNCHANGED <<disk, code_changes, skipped, arg>>
    /\ HelperFrame

\* TestGenerationNode.run on a node that has a generation call.
CallTestGeneration ==
    /\ pc = "call"
    /\ arg.fn = "test_generation"
    /\ LET targets == TestGenerationTargets(PlanDict, dirs)
       IN  \E outcome \in [Range(targets) -> GenOutcomes] :
           LET gen == test_generation(PlanDict, disk, dirs, code_changes, outcome)
           IN  /\ disk' = gen.disk
               /\ dirs' = gen.dirs
               /\ code_changes' = gen.code_changes
               /\ skipped' = Skipped(targets, outcome)
               /\ arg' = [arg EXCEPT !.outcome = outcome]
               /\ ret' = targets
    /\ pc' = "returned"
    /\ HelperFrame

\* Steps 1 to 3 of PlanningNode.run: the candidate files for the mentions.
CallCandidates ==
    /\ pc = "call"
    /\ arg.fn = "candidates"
    /\ ret' = CandidateFiles(arg.mentions, RepoFiles(disk))
    /\ pc' = "returned"
    /\ UNCHANGED <<disk, dirs, code_changes, skipped, arg>>
    /\ HelperFrame

\* The test loop of TestAndLintNode.run on a list of test files.
CallTestLoop ==
    /\ pc = "call"
    /\ arg.fn = "test_loop"
    /\ \E touts \in [DOMAIN arg.files -> TestOutcomes] :
        /\ arg' = [arg EXCEPT !.outcome = touts]
        /\ ret' = TestLoopAt(NoRuns, arg.files, touts)
    /\ pc' = "returned"
    /\ UNCHANGED <<disk, dirs, code_changes, skipped>>
    /\ HelperFrame

\* The lint loop of TestAndLintNode.run on a list of relevant files.
CallLintLoop ==
    /\ pc = "call"
    /\ arg.fn = "lint_loop"
    /\ \E lout \in [{f \in Range(arg.files) : Lintable(f)} -> LintRuns] :
        /\ arg' = [arg EXCEPT !.outcome = lout]
        /\ ret' = LintLoop(NoRuns, arg.files, lout)
    /\ pc' = "returned"
    /\ UNCHANGED <<disk, dirs, code_changes, skipped>>
    /\ HelperFrame

HelperNext ==
    \/ CallGetTestDir
    \/ CallNormalize
    \/ CallNormalizeAgain
    \/ CallTestGeneration
    \/ CallCandidates
    \/ CallTestLoop
    \/ CallLintLoop

SpecHelpers == HelperInit /\ [][HelperNext]_vars

\* ------------------------------------------------------------------ claims

Last(q) == q[Len(q)]

\* The retry edges taken so far in this run.
RetryEdges == Cardinality({i \in DOMAIN edges : edges[i] = "main_code_generation"})

\* Every test_and_lint execution of this run so far reported failed tests.
AllFailed == \A i \in DOMAIN tl_hist : tl_hist[i].tests_passed = Some(FALSE)

\* The last routing decision of this run found failed tests and no budget left.
GaveUp ==
    /\ pc = END
    /\ edges # <<>> /\ Last(edges) = END
    /\ TestsFailed(test_results)

\* The last test_and_lint execution reported passed tests and failed lint.
LintOnlyFailure ==
    /\ TestsPassedTruthy(test_results)
    /\ DictTruthy(lint_results)
    /\ ~GetTruthy(TheValue(lint_results), "lint_passed")

\* C1: in every reachable state the engine's retry_count is at most
\* max_retries (= 3).
C1_RetryCountBounded == retry_count <= max_retries

\* C1 witness: a run has used the whole budget and given up.
C1_Witness == GaveUp /\ retry_count = max_retries

\* C2: in a run started with retry_count = 0 whose first N test_and_lint
\* executions all reported failed tests, once the N-th report has been routed
\* the retry edge has been taken exactly min(N, max_retries) times, and when
\* N > max_retries the run is at STOP.
C2_RetryBound ==
    (start_retry = 0 /\ pc # "should_retry" /\ AllFailed)
        => /\ RetryEdges = Min(Len(tl_hist), max_retries)
           /\ (Len(tl_hist) > max_retries => pc = END)

\* C2 witness: max_retries + 1 consecutive failures in a run started at 0.
C2_Witness ==
    /\ start_retry = 0
    /\ AllFailed
    /\ Len(tl_hist) = max_retries + 1
    /\ pc = END
    /\ RetryEdges = max_retries

\* C3: the conditional edge evaluated with tests_passed falsy and
\* retry_count = max_retries sets last_errors to None and goes to STOP; it
\* raises nothing (the run returns its state), leaves retry_count alone, and
\* commit_and_pr has not run and does not run in that run.
C3_GiveUpSilently ==
    [][(pc = "should_retry" /\ ~TestsPassedTruthy(test_results)
            /\ retry_count = max_retries)
        => /\ pc' = END
           /\ last_errors' = None
           /\ retry_count' = retry_count
           /\ result' = "state"
           /\ "commit_and_pr" \notin Range(trace')
           /\ remote_calls' = <<>>]_vars

\* C3 witness: a run that gave up with error text recorded by its last
\* test_and_lint execution, now cleared.
C3_Witness ==
    /\ GaveUp
    /\ retry_count = max_retries
    /\ Last(tl_hist).tests_passed = Some(FALSE)
    /\ last_errors = None
    /\ result = "state"

\* C4 as stated: the conditional edge evaluated with tests_passed truthy or
\* absent sets last_errors to None and goes to commit_and_pr if the commit
\* phase is enabled, else to STOP.
C4_Original ==
    [][(pc = "should_retry" /\ ~TestsFailed(test_results))
        => /\ last_errors' = None
           /\ pc' = IF include_commit_and_pr THEN "commit_and_pr" ELSE END]_vars

\* C4 amended: the conditional edge evaluated with tests_passed truthy or
\* absent sets last_errors to None; it goes to commit_and_pr only if the
\* commit phase is enabled and tests_passed is truthy, and to STOP otherwise
\* (so with tests_passed absent it goes to STOP even when the commit phase is
\* enabled).
C4_Amended ==
    [][(pc = "should_retry" /\ ~TestsFailed(test_results))
        => /\ last_errors' = None
           /\ retry_count' = retry_count
           /\ pc' = IF include_commit_and_pr /\ TestsPassedTruthy(test_results)
                    THEN "commit_and_pr" ELSE END]_vars

\* C4 witness: a run with the commit phase enabled whose test_and_lint left an
\* empty test report stopped without entering commit_and_pr.
C4_Witness ==
    /\ include_commit_and_pr
    /\ test_results = Some(EmptyDict)
    /\ edges = <<END>>
    /\ pc = END
    /\ "commit_and_pr" \notin Range(trace)

\* C5: in any state where test_results.tests_passed is true the conditional
\* edge does not go to main_code_generation and does not change retry_count,
\* whatever lint_passed is.
C5_NoRetryWhenTestsPass ==
    [][(pc = "should_retry" /\ TestsPassedTruthy(test_results))
        => /\ pc' # "main_code_generation"
           /\ retry_count' = retry_count]_vars

\* C5 witness: passed tests with failed lint have been routed to commit_and_pr.
C5_Witness ==
    /\ LintOnlyFailure
    /\ pc = "commit_and_pr"
    /\ Last(edges) = "commit_and_pr"

\* C6: when a test_and_lint execution ends with tests passed and lint failed,
\* the conditional edge goes to commit_and_pr and not to main_code_generation,
\* state.passed is false, and the commit phase, once it has run, has made no
\* remote call and no commit.
C6_LintFailureBlocksCommit ==
    (LintOnlyFailure /\ trace # <<>> /\ Last(trace) = "commit_and_pr")
        => /\ Last(edges) = "commit_and_pr"
           /\ passed = Some(FALSE)
           /\ remote_calls = <<>>

\* C7: the commit phase run with test_results.tests_passed falsy (test_results
\* unset or empty included) makes no remote call and leaves the state
\* unchanged.
C7_CommitGated ==
    [][(pc = "commit_and_pr" /\ ~TestsPassedTruthy(test_results))
        => /\ remote_calls' = remote_calls
           /\ wstate' = wstate
           /\ pc' = END
           /\ result' = "state"]_vars

\* C7 witness: the commit phase has run on a state without passed tests.
C7_Witness ==
    /\ trace = <<"commit_and_pr">>
    /\ ~TestsPassedTruthy(test_results)
    /\ DictTruthy(code_changes)
    /\ remote_calls = <<>>
    /\ pc = END

\* C8 as stated: last_errors is None right after every test_and_lint
\* execution that reports tests_passed = true, and right after the routing
\* decision that finds the retry budget exhausted.
C8_Original ==
    /\ (pc = "should_retry" /\ TestsPassedTruthy(test_results)) => last_errors = None
    /\ GaveUp => last_errors = None

\* C8 amended: last_errors is None right after every test_and_lint execution
\* that takes its normal exit with tests and lint both passed, right after the
\* routing decision that follows any execution reporting tests_passed = true,
\* and right after the routing decision that finds the retry budget exhausted.
C8_Amended ==
    /\ (pc = "should_retry" /\ Last(tl_hist).exit = "normal" /\ passed = Some(TRUE))
            => last_errors = None
    /\ (pc # "should_retry" /\ TestsPassedTruthy(test_results)) => last_errors = None
    /\ GaveUp => last_errors = None

\* C8 witness: on a retry, passed tests with failed lint have been routed and
\* the error text is gone.
C8_Witness ==
    /\ LintOnlyFailure
    /\ Len(tl_hist) >= 2
    /\ Last(tl_hist).exit = "normal"
    /\ pc = "commit_and_pr"
    /\ last_errors = None

\* C9 as stated: last_errors is non-None only between a failing test_and_lint
\* execution (read here, in the claim's favour, as one that left passed =
\* false) and the generation phase that follows it; in every other state it is
\* None.
C9_Original ==
    last_errors # None
        => /\ passed = Some(FALSE)
           /\ pc \in {"should_retry", "main_code_generation"}

\* C9 amended: last_errors is non-None only after a test_and_lint execution of
\* the run and before the conditional edge has cleared it: while that
\* execution's report waits to be routed, or, after a retry edge (so after
\* failed tests), during the regeneration and up to the exit of the next
\* test_and_lint execution. It is None before the first test_and_lint
\* execution and whenever the run has ended.
C9_Amended ==
    last_errors # None
        => /\ tl_hist # <<>>
           /\ pc \in {"should_retry", "main_code_generation", "test_and_lint"}
           /\ (pc # "should_retry" =>
                 /\ Last(tl_hist).tests_passed = Some(FALSE)
                 /\ Last(edges) = "main_code_generation")

\* C9 witness: the regeneration has run and the error text of the failed
\* attempt is still in the state.
C9_Witness ==
    /\ pc = "test_and_lint"
    /\ Len(tl_hist) = 1
    /\ last_errors # None
    /\ Last(trace) = "main_code_generation"

PhaseRank(ph) ==
    CASE ph = "issue_analysis" -> 1
      [] ph = "project_understanding" -> 2
      [] ph = "planning" -> 3
      [] ph = "main_code_generation" -> 4
      [] ph = "test_and_lint" -> 5
      [] ph = "commit_and_pr" -> 6

Executions(ph) == Cardinality({i \in DOMAIN trace : trace[i] = ph})

\* C10: the phases of a run execute in the order issue_analysis,
\* project_understanding, planning, main_code_generation, test_and_lint;
\* the first three execute at most once; and the only step back to an earlier
\* phase is test_and_lint -> main_code_generation.
C10_PhaseOrder ==
    /\ trace # <<>> => trace[1] = "issue_analysis"
    /\ \A i \in 1..(Len(trace) - 1) :
        \/ PhaseRank(trace[i + 1]) = PhaseRank(trace[i]) + 1
        \/ trace[i] = "test_and_lint" /\ trace[i + 1] = "main_code_generation"
    /\ \A ph \in {"issue_analysis", "project_understanding", "planning"} :
        Executions(ph) <= 1

\* C10 witness: a run that went through every phase and took the retry edge.
C10_Witness ==
    /\ Executions("main_code_generation") >= 2
    /\ Last(trace) = "commit_and_pr"
    /\ Executions("planning") = 1

\* C11: in a run configured without the commit phase, commit_and_pr is never
\* executed and every evaluation of the conditional edge yields
\* main_code_generation or STOP.
C11_CommitExcluded ==
    ~include_commit_and_pr
        => /\ pc # "commit_and_pr"
           /\ "commit_and_pr" \notin Range(trace)
           /\ \A i \in DOMAIN edges : edges[i] \in {"main_code_generation", END}
           /\ remote_calls = <<>>

\* C11 witness: a run without the commit phase retried once, then passed its
\* tests and stopped.
C11_Witness ==
    /\ ~include_commit_and_pr
    /\ TestsPassedTruthy(test_results)
    /\ edges = <<"main_code_generation", END>>
    /\ pc = END

\* code_changes.updated_files, empty while there is no change record
UpdatedFiles(cc) ==
    IF cc # None /\ "updated_files" \in DOMAIN TheValue(cc)
    THEN TheValue(cc).updated_files ELSE <<>>

NoDuplicates(q) == \A i, j \in DOMAIN q : q[i] = q[j] => i = j

\* C12: within a run, no step removes an entry from
\* code_changes.updated_files, and the list never holds the same path twice,
\* however often the generation phases run over the same files.
C12_UpdatedFilesMonotonic ==
    [][pc' # "issue_analysis"
        => /\ Range(UpdatedFiles(code_changes)) \subseteq Range(UpdatedFiles(code_changes'))
           /\ NoDuplicates(UpdatedFiles(code_changes'))]_vars

\* C12 witness: the same source file has been regenerated on a retry and is
\* listed once.
C12_Witness ==
    /\ Executions("main_code_generation") >= 2
    /\ Last(trace) = "main_code_generation"
    /\ UpdatedFiles(code_changes) = <<SrcFile>>

\* The flags of the last reports, false when the report lacks them.
TestsPassedFlag == GetTruthy(TheValue(test_results), "tests_passed")

LintPassedFlag == DictTruthy(lint_results) /\ GetTruthy(TheValue(lint_results), "lint_passed")

\* C13: right after every test_and_lint execution that sets
\* test_results.tests_passed, on whichever exit path, state.passed equals
\* tests_passed AND lint_passed.
C13_PassedIsConjunction ==
    (pc = "should_retry" /\ DictTruthy(test_results)
        /\ "tests_passed" \in DOMAIN TheValue(test_results))
        => passed = Some(TestsPassedFlag /\ LintPassedFlag)

\* C14: a test_and_lint execution that finds no test file after the three
\* fallbacks reports tests_passed = true and has run the lint command on every
\* lintable relevant file (each has an entry in lint_outputs).
C14_LintRunsWithoutTests ==
    (pc = "should_retry" /\ Last(tl_hist).exit = "no_test_files")
        => /\ TestsPassedTruthy(test_results)
           /\ \A f \in LintTargets(PlanDict) :
                f \in DOMAIN TheValue(lint_results).lint_outputs

\* Some captured test output of the last report holds the phrase.
PhraseCaptured ==
    /\ DictTruthy(test_results)
    /\ "test_outputs" \in DOMAIN TheValue(test_results)
    /\ \E f \in DOMAIN TheValue(test_results).test_outputs :
          TheValue(test_results).test_outputs[f].text = "no tests ran"

\* C15: a test_and_lint execution one of whose captured test outputs holds
\* 'no tests ran' reports tests_passed = true whatever the exit codes, and the
\* conditional edge that routes it does not retry.
C15_NoTestsRanPasses ==
    [][(pc = "should_retry" /\ PhraseCaptured)
        => /\ TestsPassedTruthy(test_results)
           /\ pc' # "main_code_generation"
           /\ retry_count' = retry_count]_vars

\* C15 witness: a test command ended with a non-zero exit code and the
\* phrase, and its report was routed forward.
C15_Witness ==
    /\ PhraseCaptured
    /\ \A f \in DOMAIN TheValue(test_results).test_outputs :
          TheValue(test_results).test_outputs[f].rc # 0
    /\ edges # <<>>
    /\ Len(edges) = Len(tl_hist)
    /\ Last(edges) # "main_code_generation"

\* A run of exactly two test_and_lint executions, the first with failed
\* tests and the second with passed tests and lint, has returned its state.
FailedThenPassed ==
    /\ pc = END
    /\ result = "state"
    /\ Len(tl_hist) = 2
    /\ tl_hist[1].tests_passed = Some(FALSE)
    /\ TestsPassedTruthy(test_results)
    /\ LintPassedFlag

\* C16 as stated: such a run ends with retry_count = 1, passed = true and
\* last_errors None.
C16_Original ==
    FailedThenPassed
        => /\ retry_count = 1
           /\ passed = Some(TRUE)
           /\ last_errors = None

\* C16 amended: such a run consumes exactly one retry (retry_count ends one
\* above its value at the start of the run, which is 1 only on an engine that
\* has not retried before), and ends with passed = true and last_errors None.
C16_Amended ==
    FailedThenPassed
        => /\ RetryEdges = 1
           /\ retry_count = start_retry + 1
           /\ passed = Some(TRUE)
           /\ last_errors = None

\* C16 witness: the scenario on an engine whose earlier run had retried.
C16_Witness ==
    /\ FailedThenPassed
    /\ start_retry > 0
    /\ retry_count = start_retry + 1

\* C17: when every external call returns, a run in progress eventually
\* reaches STOP (directly or once commit_and_pr has completed) or aborts on an
\* error, and no run executes main_code_generation or test_and_lint more than
\* max_retries + 1 times.
C17_RunTerminates ==
    /\ [](/\ Executions("main_code_generation") <= max_retries + 1
          /\ Executions("test_and_lint") <= max_retries + 1)
    /\ (Running ~> (pc \in {END, "FAILED"}))

\* C17 witness: a run that used max_retries + 1 executions of both phases has
\* ended.
C17_Witness ==
    /\ pc = END
    /\ Executions("main_code_generation") = max_retries + 1
    /\ Executions("test_and_lint") = max_retries + 1

\* The commit phase has moved the branch to a new commit.
Committed ==
    /\ "ref.edit" \in Range(remote_calls)
    /\ Last(remote_calls) # "raised"

\* C18: when a phase raises, run_workflow returns None, the step takes no
\* retry edge, leaves retry_count alone and commits nothing, and afterwards no
\* phase or edge of that run executes (the next step, if any, starts a run).
C18_AbortOnError ==
    [][/\ (pc' = "FAILED" /\ pc # "FAILED")
            => /\ result' = "None"
               /\ retry_count' = retry_count
               /\ edges' = edges
               /\ ~Committed'
       /\ pc = "FAILED"
            => /\ pc' = "issue_analysis"
               /\ trace' = <<>>
               /\ retry_count' = retry_count]_vars

\* C18 witness: issue retrieval raised on an issue number (no credentials, or
\* the issue could not be fetched) and the run has returned None.
C18_Witness ==
    /\ pc = "FAILED"
    /\ result = "None"
    /\ trace = <<"issue_analysis", "project_understanding">>
    /\ github_issue.kind = "number"
    /\ edges = <<>>

\* The plan planning stores when classification falls back.
FallbackPlan ==
    MkPlan(CandidateFiles(github_issue.mentions, RepoFiles(disk)),
           CandidateFiles(github_issue.mentions, RepoFiles(disk)), <<>>, FALSE)

\* C19: when the classification call yields unparsable output, planning
\* stores relevant_files = source_files = candidate_files, test_files = [] and
\* is_test_generation_issue = false and the run goes on to
\* main_code_generation; and once planning has made the classification call,
\* whatever the call does, planning does not fail the run.
C19_ClassificationNeverFails ==
    [][/\ (pc = "planning" /\ classified' = "unparsable")
            => /\ plan' = Some(FallbackPlan)
               /\ pc' = "main_code_generation"
       /\ (pc = "planning" /\ classified' # "none")
            => pc' # "FAILED"]_vars

\* The generation loop could write f: its directory exists.
Writable(f) == f.dir = <<>> \/ f.dir \in dirs

\* C20: in a generation phase, a target whose generation call raised or
\* returned nothing once the fence was removed keeps its on-disk content, the
\* other targets of the phase are written, and the run goes on to the next
\* phase; the generation calls made inside test_and_lint, which all raise,
\* leave every file's content as it was.
C20_GenerationErrorsSkipFile ==
    [][/\ (pc = "main_code_generation" /\ github_issue.kind # "empty")
            => /\ \A f \in skipped' :
                    IF f \in DOMAIN disk
                    THEN f \in DOMAIN disk' /\ disk'[f] = disk[f]
                    ELSE f \notin DOMAIN disk'
               /\ \A f \in Range(PlanList("source_files")) \ skipped' :
                    Writable(f) => (f \in DOMAIN disk' /\ disk'[f] = "gen")
               /\ pc' = "test_and_lint"
       /\ pc = "test_and_lint"
            => \A f \in DOMAIN disk : f \in DOMAIN disk' /\ disk'[f] = disk[f]]_vars

\* C20 witness: the call for the first target failed, the second target was
\* written, and the run is at the next phase.
C20_Witness ==
    /\ pc = "test_and_lint"
    /\ PlanList("source_files") = <<SrcFile, TestFile>>
    /\ skipped = {SrcFile}
    /\ disk[SrcFile] = "orig"
    /\ disk[TestFile] = "gen"

\* C21: the normalization of test file paths returns a path that has a
\* directory component unchanged (the same path, and the same text when the
\* text was already the path's own), and normalizing the result again, as the
\* test generation phase does with the list the planning phase stored,
\* changes nothing.
C21_NormalizeIdempotent ==
    [][(arg'.fn = "normalize" /\ pc' = "returned") =>
        /\ Len(ret') = Len(arg'.files)
        /\ \A i \in DOMAIN arg'.files :
              arg'.files[i].dir # <<>> =>
                /\ PathOf(ret'[i]) = PathOf(arg'.files[i])
                /\ (~arg'.files[i].dot => ret'[i] = arg'.files[i])
        /\ (pc = "returned" => ret' = ret)]_vars

\* A bare name and a path in test/ written with a leading "./" have been
\* normalized twice on a working copy that has tests/ and test/: the first is
\* in tests/, the second is the path it was.
C21_Witness ==
    /\ pc = "returned"
    /\ Len(trace) = 2
    /\ arg.fn = "normalize"
    /\ arg.files = <<Str(BareTestFile), Spelled(AltTestFile, TRUE)>>
    /\ ret = <<Str(TestFile), Str(AltTestFile)>>

\* The test generation phase is entered with a plan that has no test files.
InfersTestFile ==
    pc = "call" /\ arg.fn = "test_generation" /\ PlanTestFiles(PlanDict) = <<>>

\* C22 (as stated): test generation on a plan without test files works on
\* exactly one file, test_<stem of the first source file>.py in the test
\* directory, and that file is on disk, empty unless generation wrote it.
C22_Original ==
    [][(InfersTestFile /\ PlanSourceFiles(PlanDict) # <<>>) =>
        LET inferred == MkPath(get_test_dir(dirs),
                               <<"test", "_">> \o PlanSourceFiles(PlanDict)[1].stem,
                               ".py")
        IN  /\ ret' = <<inferred>>
            /\ inferred \in DOMAIN disk'
            /\ (inferred \in skipped' => disk'[inferred] = "")]_vars

\* C22 (amended): the one file is test_<stem>.py in the test directory, where
\* the stem is the first source file's with a leading "test_" removed, or
\* "generated" when the plan has no source files; the file is on disk
\* afterwards, and unless generation wrote it, it is empty if it did not exist
\* and has the content it had if it did.
C22_Amended ==
    [][InfersTestFile =>
        LET src      == PlanSourceFiles(PlanDict)
            stem     == IF src = <<>> THEN <<"generated">>
                        ELSE IF Len(src[1].stem) >= 2 /\ src[1].stem[1] = "test"
                                /\ src[1].stem[2] = "_"
                             THEN SubSeq(src[1].stem, 3, Len(src[1].stem))
                             ELSE src[1].stem
            inferred == MkPath(get_test_dir(dirs), <<"test", "_">> \o stem, ".py")
        IN  /\ ret' = <<inferred>>
            /\ inferred \in DOMAIN disk'
            /\ (inferred \in skipped' =>
                  disk'[inferred] = IF inferred \in DOMAIN disk
                                    THEN disk[inferred] ELSE "")]_vars

\* Test generation has run on the plan whose only source file is
\* test_temperature.py and which has no test files, where tests/ existed
\* without that file: it worked on tests/test_temperature.py, created empty.
C22_Witness ==
    /\ pc = "returned"
    /\ arg.fn = "test_generation"
    /\ PlanSourceFiles(PlanDict) = <<BareTestFile>>
    /\ PlanTestFiles(PlanDict) = <<>>
    /\ OtherTestFile \in DOMAIN disk
    /\ ret = <<TestFile>>
    /\ disk[TestFile] = ""

\* C23: for every file mentioned in the issue, every repository file (a file
\* of the working copy with a recognized extension) whose name contains
\* "test" or "spec" and the mentioned file's stem, both compared without
\* regard to case, is among the candidate files.
C23_RelevantTestsAreCandidates ==
    [][(arg'.fn = "candidates" /\ pc' = "returned") =>
        \A mf \in arg'.mentions :
            \A rf \in DOMAIN disk' :
                ( /\ rf.ext \in {".py", ".js", ".ts", ".tsx", ".jsx", ".json"}
                  /\ \E i \in DOMAIN rf.stem : Lower(rf.stem)[i] \in {"test", "spec"}
                  /\ Contains(Lower(rf.stem), Lower(mf.stem)) )
                => \E k \in DOMAIN ret' : ret'[k] = rf]_vars

\* The candidates for a mention of temperature.py in a repository that holds
\* tests/test_temperature.py, tests/Test_Temperature.py,
\* tests/temperature.spec.js, tests/test_other.py and tests/test_temperature.md:
\* the mention and the first three.
C23_Witness ==
    /\ pc = "returned"
    /\ arg.fn = "candidates"
    /\ arg.mentions = {SrcFile}
    /\ DOMAIN disk = {SrcFile, TestFile, CapsTestFile, SpecFile, OtherTestFile, DocFile}
    /\ ret = <<SrcFile, CapsTestFile, SpecFile, TestFile>>

\* The test files whose command the test_and_lint execution that leaves
\* results tr has run.
Executed(tr) == DOMAIN TheValue(tr).test_outputs

\* The files of a list that are on disk d and have a test runner.
RunnableOnDisk(files, d) ==
    {f \in Range(files) :
        f \in DOMAIN d /\ f.ext \in {".py", ".js", ".jsx", ".ts", ".tsx"}}

\* The relevant files of the plan whose name contains "test" or "spec".
RelevantTestLike ==
    SelectSeq(PlanList("relevant_files"),
              LAMBDA f : \E i \in DOMAIN f.stem : Lower(f.stem)[i] \in {"test", "spec"})

\* C24: a test_and_lint execution on a plan with relevant files runs the
\* plan's test files that exist on disk; if none exists, the relevant files
\* named like tests that exist on disk; if none of those exists either, test
\* generation manufactures a test file, which is then on disk and is run.
C24_ResolutionOrder ==
    [][(pc = "test_and_lint" /\ pc' = "should_retry"
            /\ PlanList("relevant_files") # <<>>) =>
        IF \E f \in Range(PlanList("test_files")) : f \in DOMAIN disk
        THEN Executed(test_results') = RunnableOnDisk(PlanList("test_files"), disk)
        ELSE IF \E f \in Range(RelevantTestLike) : f \in DOMAIN disk
        THEN Executed(test_results') = RunnableOnDisk(RelevantTestLike, disk)
        ELSE \E f \in DOMAIN disk' :
                /\ \E i \in DOMAIN f.stem : Lower(f.stem)[i] \in {"test", "spec"}
                /\ f \in Executed(test_results')]_vars

\* C25 (as stated): the test loop runs the test command of a file at most
\* twice.
C25_Original ==
    [][(arg'.fn = "test_loop" /\ pc' = "returned") =>
        \A f \in DOMAIN ret'.runs : ret'.runs[f] <= 2]_vars

\* The number of command executions the entries of files naming f account
\* for, when each entry that has a runner counts once, and once more if it is
\* a Python file whose first execution ended with the module-not-found
\* signature.
RECURSIVE EntryRuns(_, _, _)
EntryRuns(f, files, touts) ==
    IF files = <<>> THEN 0
    ELSE EntryRuns(f, Tail(files), Tail(touts)) +
         (IF Head(files) # f \/ Head(files).ext \notin {".py", ".js", ".jsx", ".ts", ".tsx"}
          THEN 0
          ELSE IF /\ f.ext = ".py"
                  /\ ~Head(touts).first.raises
                  /\ Head(touts).first.text = "ModuleNotFoundError"
               THEN 2 ELSE 1)

\* C25 (amended): for each entry of the list of test files, the test loop runs
\* the entry's command once, and exactly once more if the first execution of a
\* Python test ended with the module-not-found signature, whatever the second
\* execution does; a file the list names once is run at most twice, a file it
\* names n times at most 2n times.
C25_Amended ==
    [][(arg'.fn = "test_loop" /\ pc' = "returned") =>
        /\ DOMAIN ret'.runs =
              {f \in Range(arg'.files) : f.ext \in {".py", ".js", ".jsx", ".ts", ".tsx"}}
        /\ \A f \in DOMAIN ret'.runs :
              ret'.runs[f] = EntryRuns(f, arg'.files, arg'.outcome)]_vars

\* The test loop has run on a list naming tests/test_temperature.py once; the
\* first execution and the re-run both ended with the module-not-found
\* signature, and the command was run twice.
C25_Witness ==
    /\ pc = "returned"
    /\ arg.fn = "test_loop"
    /\ arg.files = <<TestFile>>
    /\ arg.outcome[1].first.text = "ModuleNotFoundError"
    /\ arg.outcome[1].second.text = "ModuleNotFoundError"
    /\ ret.runs[TestFile] = 2
    /\ ~ret.passed

\* A test command of the last test_and_lint execution was re-run after a
\* module-not-found failure (and failed the same way again).
SelfHealed ==
    /\ DictTruthy(test_results)
    /\ "test_outputs" \in DOMAIN TheValue(test_results)
    /\ \E f \in DOMAIN TheValue(test_results).test_outputs :
          TheValue(test_results).test_outputs[f].text = "ModuleNotFoundError"

\* C26: the only step that changes retry_count is the retry edge from
\* test_and_lint back to main_code_generation, which adds exactly 1; every
\* phase, test_and_lint with its re-run after a missing module included, every
\* other routing decision and the start of a run leave it as it is.
C26_RetryCountOnlyByRetryEdge ==
    [][/\ (pc = "should_retry" /\ pc' = "main_code_generation")
            => retry_count' = retry_count + 1
       /\ ~(pc = "should_retry" /\ pc' = "main_code_generation")
            => retry_count' = retry_count]_vars

\* A test_and_lint execution whose test command was re-run after a missing
\* module has been routed back to main_code_generation: one retry is counted.
C26_Witness ==
    /\ pc = "main_code_generation"
    /\ edges # <<>>
    /\ Last(edges) = "main_code_generation"
    /\ SelfHealed
    /\ retry_count = start_retry + 1

\* The first position of f in the list q.
FirstIndex(q, f) == CHOOSE i \in DOMAIN q : q[i] = f /\ \A j \in 1..(i - 1) : q[j] # f

\* C27: when main_code_generation has executed, every source file of the plan
\* is in code_changes.updated_files, whether its generation succeeded or was
\* skipped; the entries listed before stay where they were, and the new ones
\* follow in the order in which the plan first names them. When test_and_lint
\* has run test generation, the test file it created is listed as well.
C27_TargetsAlwaysListed ==
    [][/\ (pc = "main_code_generation" /\ pc' = "test_and_lint"
                /\ github_issue.kind # "empty")
            => LET old     == UpdatedFiles(code_changes)
                   new     == UpdatedFiles(code_changes')
                   targets == PlanList("source_files")
               IN  /\ Range(targets) \subseteq Range(new)
                   /\ Len(new) >= Len(old)
                   /\ SubSeq(new, 1, Len(old)) = old
                   /\ \A i, j \in (Len(old) + 1)..Len(new) :
                         i < j => /\ new[i] \in Range(targets)
                                  /\ new[j] \in Range(targets)
                                  /\ FirstIndex(targets, new[i]) < FirstIndex(targets, new[j])
       /\ (pc = "test_and_lint" /\ pc' = "should_retry")
            => \A f \in DOMAIN disk' \ DOMAIN disk :
                  f \in Range(UpdatedFiles(code_changes'))]_vars

\* The generation call for temperature.py failed and the one for
\* tests/test_temperature.py wrote the file: both are listed, in plan order.
C27_Witness ==
    /\ pc = "test_and_lint"
    /\ PlanList("source_files") = <<SrcFile, TestFile>>
    /\ skipped = {SrcFile}
    /\ disk[SrcFile] = "orig"
    /\ UpdatedFiles(code_changes) = <<SrcFile, TestFile>>

\* get_test_dir is about to be applied.
ResolvesTestDir == pc = "call" /\ arg.fn = "get_test_dir"

C29_NoBareTestFiles ==
    [][(pc = "planning" /\ pc' = "main_code_generation") =>
        LET tf == TheValue(plan').test_files
            td == IF <<"tests">> \in dirs THEN <<"tests">>
                  ELSE IF <<"test">> \in dirs THEN <<"test">>
                  ELSE <<"tests">>
        IN  /\ \A i \in DOMAIN tf : tf[i].dir # <<>>
            /\ TheValue(plan').is_test_generation_issue
                  => /\ tf = <<MkPath(td, <<"test", "_", "temperature">>, ".py")>>
                     /\ td \in dirs']_vars

\* Planning has stored the classification that names the bare
\* test_temperature.py on a repository without a test directory: the plan's
\* test file is tests/test_temperature.py and tests/ exists.
C29_Witness ==
    /\ pc = "main_code_generation"
    /\ Last(trace) = "planning"
    /\ PlanList("relevant_files") = <<SrcFile, BareTestFile>>
    /\ PlanList("test_files") = <<TestFile>>
    /\ DOMAIN disk = {SrcFile}
    /\ dirs = {<<"tests">>}

\* C30: once issue retrieval has executed, planning, code generation,
\* test_and_lint, the conditional edge and commit_and_pr leave github_issue
\* as it is, on the first iteration and on every retry.
C30_IssueImmutable ==
    [][(pc \in {"planning", "main_code_generation", "test_and_lint",
                 "should_retry", "commit_and_pr"})
        => github_issue' = github_issue]_vars

\* A run whose issue was fetched by number has retried once and committed;
\* the issue is the fetched one.
C30_Witness ==
    /\ pc = END
    /\ Last(trace) = "commit_and_pr"
    /\ Executions("main_code_generation") = 2
    /\ github_issue = IssueText
    /\ Committed

\* The phases and the edge that follow planning.
AfterPlanning ==
    pc \in {"main_code_generation", "test_and_lint", "should_retry", "commit_and_pr"}

\* The step is a test_and_lint execution that found no test file on disk,
\* neither among the plan's test files nor among its relevant files, and so
\* ran test generation.
RegeneratesTests ==
    /\ pc = "test_and_lint"
    /\ pc' = "should_retry"
    /\ PlanList("relevant_files") # <<>>
    /\ ~\E f \in Range(PlanList("test_files")) : f \in DOMAIN disk
    /\ ~\E f \in Range(RelevantTestLike) : f \in DOMAIN disk

\* C31: after planning, no step changes the plan's relevant_files,
\* source_files or is_test_generation_issue; plan.test_files changes only in
\* a step that ran test generation because no test file existed, and that
\* step stores the list of test files it generated for.
C31_PlanFrame ==
    [][(AfterPlanning /\ plan # None) =>
        /\ plan' # None
        /\ TheValue(plan').relevant_files = TheValue(plan).relevant_files
        /\ TheValue(plan').source_files = TheValue(plan).source_files
        /\ TheValue(plan').is_test_generation_issue = TheValue(plan).is_test_generation_issue
        /\ TheValue(plan').test_files =
              IF RegeneratesTests THEN TestGenerationTargets(PlanDict, dirs)
              ELSE TheValue(plan).test_files]_vars

\* The relevant files of the plan the lint loop handles: Python files whose
\* stem does not contain "test".
LintedFiles ==
    {f \in Range(PlanList("relevant_files")) :
        f.ext = ".py" /\ ~\E i \in DOMAIN f.stem : Lower(f.stem)[i] = "test"}

\* C32: every test_and_lint execution that returns stores new test_results
\* and lint_results; their output maps have entries only for test files this
\* execution resolved and ran and for files it linted, and tests_passed is
\* computed from these entries alone (all exit codes zero, or the phrase
\* 'no tests ran' in one of them).
C32_ResultsReplaced ==
    [][(pc = "test_and_lint" /\ pc' = "should_retry") =>
        /\ test_results' # None
        /\ lint_results' # None
        /\ "test_outputs" \in DOMAIN TheValue(test_results') =>
              LET outs == TheValue(test_results').test_outputs
              IN  /\ DOMAIN outs \subseteq
                        RunnableOnDisk(PlanList("test_files"), disk')
                            \cup RunnableOnDisk(RelevantTestLike, disk')
                  /\ TheValue(test_results').tests_passed =
                        ( \/ \A f \in DOMAIN outs : outs[f].rc = 0
                          \/ \E f \in DOMAIN outs : outs[f].text = "no tests ran" )
        /\ "lint_outputs" \in DOMAIN TheValue(lint_results') =>
              DOMAIN TheValue(lint_results').lint_outputs \subseteq LintedFiles]_vars

\* The second test_and_lint execution of a run has returned: the first one
\* reported a failed test, this one's entry for the same test file is a pass.
C32_Witness ==
    /\ pc = "should_retry"
    /\ Len(tl_hist) = 2
    /\ tl_hist[1].exit = "normal"
    /\ tl_hist[1].tests_passed = Some(FALSE)
    /\ Executed(test_results) = {TestFile}
    /\ TheValue(test_results).test_outputs[TestFile].rc = 0
    /\ TheValue(test_results).tests_passed

\* The error blocks in last_errors.
ErrorBlocks == IF last_errors = None THEN <<>> ELSE TheValue(last_errors)

\* Every test command of the last report that could not be started or exited
\* non-zero has made tests_passed false and has an error block in last_errors.
TestFailuresRecorded ==
    \A f \in Executed(test_results) :
        TheValue(test_results).test_outputs[f].rc # 0 =>
            /\ ~TheValue(test_results).tests_passed
            /\ \E i \in DOMAIN ErrorBlocks :
                  /\ ErrorBlocks[i].file = f
                  /\ ErrorBlocks[i].what \in {"Test failure", "Test error"}

\* Every lint command of the last report that could not be started or exited
\* non-zero has made lint_passed false.
LintFailuresFlagged ==
    \A f \in DOMAIN TheValue(lint_results).lint_outputs :
        TheValue(lint_results).lint_outputs[f].rc # 0 =>
            ~TheValue(lint_results).lint_passed

\* ... and has an error block in last_errors.
LintFailuresRecorded ==
    \A f \in DOMAIN TheValue(lint_results).lint_outputs :
        TheValue(lint_results).lint_outputs[f].rc # 0 =>
            \E i \in DOMAIN ErrorBlocks :
                /\ ErrorBlocks[i].file = f
                /\ ErrorBlocks[i].what \in {"Lint failure", "Lint error"}

\* Once a test command has run, every test file resolved from the plan that
\* has a runner and every file to lint has an entry.
AllProcessed ==
    Executed(test_results) # {} =>
        /\ LintedFiles \subseteq DOMAIN TheValue(lint_results).lint_outputs
        /\ IF \E f \in Range(PlanList("test_files")) : f \in DOMAIN disk
           THEN RunnableOnDisk(PlanList("test_files"), disk) \subseteq Executed(test_results)
           ELSE RunnableOnDisk(RelevantTestLike, disk) \subseteq Executed(test_results)

\* The last report has output maps (the phase went past its first exit).
HasOutputs ==
    /\ DictTruthy(test_results)
    /\ "test_outputs" \in DOMAIN TheValue(test_results)

\* The conditional edge on a report with failed tests: a retry while budget
\* is left, the end of the run otherwise.
FailureDrivesRetry ==
    (pc = "should_retry" /\ HasOutputs /\ ~TheValue(test_results).tests_passed)
        => pc' = IF retry_count < max_retries THEN "main_code_generation" ELSE END

\* C33 (as stated): a test_and_lint execution returns whatever its commands
\* do; every test or lint command that could not be started or exited
\* non-zero has made its pass flag false and has an error block in
\* last_errors, all files were processed, and a report with failed tests is
\* routed to a retry while budget is left and to the end otherwise.
C33_Original ==
    [][/\ pc = "test_and_lint" =>
            /\ pc' = "should_retry"
            /\ HasOutputs' =>
                 /\ TestFailuresRecorded'
                 /\ LintFailuresFlagged'
                 /\ LintFailuresRecorded'
                 /\ AllProcessed'
       /\ FailureDrivesRetry]_vars

\* C33 (amended): as stated, except when one of the captured test outputs
\* holds 'no tests ran': then the execution reports tests_passed = true even
\* if a test command exited non-zero, and leaves last_errors as it was, so
\* neither the test failures nor the lint failures of this execution reach
\* it; lint_passed is still false after a lint failure and all files are
\* still processed.
C33_Amended ==
    [][/\ pc = "test_and_lint" =>
            /\ pc' = "should_retry"
            /\ HasOutputs' =>
                 /\ LintFailuresFlagged'
                 /\ AllProcessed'
                 /\ IF PhraseCaptured'
                    THEN /\ TheValue(test_results').tests_passed
                         /\ last_errors' = last_errors
                    ELSE /\ TestFailuresRecorded'
                         /\ LintFailuresRecorded'
       /\ FailureDrivesRetry]_vars

\* The test command of tests/test_temperature.py exited non-zero and the
\* lint command of temperature.py could not be started; both flags are false,
\* both failures are in last_errors, and the retry budget is used up, so the
\* report is about to end the run without a retry.
C33_Witness ==
    /\ pc = "should_retry"
    /\ HasOutputs
    /\ Executed(test_results) = {TestFile}
    /\ TheValue(test_results).test_outputs[TestFile].rc = 1
    /\ SrcFile \in DOMAIN TheValue(lint_results).lint_outputs
    /\ TheValue(lint_results).lint_outputs[SrcFile].rc = -1
    /\ ~TheValue(test_results).tests_passed
    /\ ~TheValue(lint_results).lint_passed
    /\ Len(ErrorBlocks) = 2
    /\ retry_count = max_retries

\* C34: the lint loop runs the lint command on exactly those relevant files
\* that end in .py and whose name contains neither "test" nor "spec"; a lint
\* command that exits non-zero makes lint_passed false and appends an error
\* block.
C34_LintTargets ==
    [][(arg'.fn = "lint_loop" /\ pc' = "returned") =>
        /\ DOMAIN ret'.outputs =
              {f \in Range(arg'.files) :
                  /\ f.ext = ".py"
                  /\ ~\E i \in DOMAIN f.stem : Lower(f.stem)[i] \in {"test", "spec"}}
        /\ \A f \in DOMAIN ret'.outputs :
              ret'.outputs[f].rc # 0 =>
                  /\ ~ret'.passed
                  /\ \E i \in DOMAIN ret'.errors : ret'.errors[i].file = f]_vars

\* File f is handled by the generation step: it is newly listed in
\* updated_files or its content changes.
Generated(f) ==
    \/ /\ f \in Range(UpdatedFiles(code_changes'))
       /\ f \notin Range(UpdatedFiles(code_changes))
    \/ /\ f \in DOMAIN disk'
       /\ (f \notin DOMAIN disk \/ disk'[f] # disk[f])

\* C35: the main_code_generation phase generates for the plan's test files
\* only when is_test_generation_issue is true and the plan has test files,
\* for the plan's source files only when the flag is false and the plan has
\* source files, and otherwise leaves the change record and the working copy
\* as they are.
C35_FlagSelectsGeneration ==
    [][(pc = "main_code_generation" /\ pc' = "test_and_lint") =>
        LET flag == GetTruthy(PlanDict, "is_test_generation_issue")
            src  == PlanList("source_files")
            tst  == PlanList("test_files")
        IN  IF flag /\ tst # <<>>
            THEN /\ Range(tst) \subseteq Range(UpdatedFiles(code_changes'))
                 /\ \A f \in Range(src) \ Range(tst) : ~Generated(f)
            ELSE IF ~flag /\ src # <<>>
            THEN /\ Range(src) \subseteq Range(UpdatedFiles(code_changes'))
                 /\ \A f \in Range(tst) \ Range(src) : ~Generated(f)
            ELSE /\ code_changes' = code_changes
                 /\ disk' = disk
                 /\ dirs' = dirs]_vars

\* C36: run_workflow never resets retry_count. With start_retry the number of
\* retry transitions of all earlier runs of this engine, the counter always
\* equals the retry transitions of all runs so far, that total is at most
\* max_retries, and a run started with the budget used up takes the retry
\* edge zero times.
C36_BudgetSharedAcrossRuns ==
    /\ retry_count = start_retry + RetryEdges
    /\ start_retry + RetryEdges <= max_retries
    /\ (start_retry = max_retries => RetryEdges = 0)

\* C36 witness: the second run of an engine whose first run used the whole
\* budget fails its tests once and gives up without retrying.
C36_Witness ==
    /\ runs = 2
    /\ start_retry = max_retries
    /\ GaveUp
    /\ Len(tl_hist) = 1
    /\ RetryEdges = 0

\* C37: in every run commit_and_pr executes at most once, and only as the
\* phase right after a test_and_lint execution that reported tests_passed
\* true; once it has executed the run is over and no phase follows it.
C37_CommitOnceAfterPassedTests ==
    /\ Executions("commit_and_pr") <= 1
    /\ \A i \in DOMAIN trace :
        trace[i] = "commit_and_pr"
            => /\ i > 1
               /\ trace[i - 1] = "test_and_lint"
               /\ tl_hist # <<>>
               /\ Last(tl_hist).tests_passed = Some(TRUE)
               /\ TestsPassedTruthy(test_results)
               /\ i = Len(trace)
               /\ pc \in {END, "FAILED"}
    /\ pc = "commit_and_pr"
            => /\ trace # <<>>
               /\ Last(trace) = "test_and_lint"
               /\ TestsPassedTruthy(test_results)

\* C37 witness: a run that retried, then passed its tests, committed and
\* ended.
C37_Witness ==
    /\ pc = END
    /\ Executions("commit_and_pr") = 1
    /\ Executions("test_and_lint") = 2
    /\ Executions("main_code_generation") = 2
    /\ Last(trace) = "commit_and_pr"
    /\ Committed

\* Every error block in last_errors comes from the last report: its file has
\* an entry there with a non-zero exit code (or a command that could not be
\* started), and a test failure's block carries that entry's output.
BlocksFromLastReport ==
    \A i \in DOMAIN ErrorBlocks :
        LET b == ErrorBlocks[i]
        IN  IF b.what \in {"Test failure", "Test error"}
            THEN /\ b.file \in Executed(test_results)
                 /\ TheValue(test_results).test_outputs[b.file].rc # 0
                 /\ b.what = "Test failure"
                        => b.text = TheValue(test_results).test_outputs[b.file].text
            ELSE /\ b.file \in DOMAIN TheValue(lint_results).lint_outputs
                 /\ TheValue(lint_results).lint_outputs[b.file].rc # 0

\* C38: whenever the retry edge test_and_lint -> main_code_generation is
\* taken, last_errors is non-empty and is the error text of the test_and_lint
\* execution just before it: that execution assigned it, every failure of its
\* report has a block, every block is a failure of its report, and the edge
\* hands it on unchanged.
C38_RetryCarriesLastErrors ==
    [][(pc = "should_retry" /\ pc' = "main_code_generation")
          => /\ last_errors # None
             /\ ErrorBlocks # <<>>
             /\ tl_hist # <<>>
             /\ Last(tl_hist).exit = "normal"
             /\ TestFailuresRecorded
             /\ LintFailuresRecorded
             /\ BlocksFromLastReport
             /\ last_errors' = last_errors]_vars

\* C38 witness: the second retry of a run is about to regenerate with the
\* one test failure of the execution before it.
C38_Witness ==
    /\ pc = "main_code_generation"
    /\ RetryEdges = 2
    /\ Len(tl_hist) = 2
    /\ Len(ErrorBlocks) = 1
    /\ ErrorBlocks[1].what = "Test failure"
    /\ ErrorBlocks[1].file = TestFile

\* C39: when main_code_generation is about to execute for the first time in
\* a run, last_errors is None, whatever an earlier run of the same engine
\* left behind; and every start of a run sets it to None.
C39_FirstGenerationWithoutErrors ==
    [][/\ (pc = "main_code_generation" /\ Executions("main_code_generation") = 0)
            => last_errors = None
       /\ (pc' = "issue_analysis" /\ pc # "issue_analysis")
            => last_errors' = None]_vars

\* C39 witness: the second run of an engine whose first run retried is about
\* to generate code for the first time.
C39_Witness ==
    /\ runs = 2
    /\ start_retry > 0
    /\ pc = "main_code_generation"
    /\ Executions("main_code_generation") = 0
    /\ Executions("planning") = 1
    /\ last_errors = None

\* C40: whenever commit_and_pr is entered with test_results.tests_passed
\* true, a generation phase has executed in this run and code_changes is a
\* record that lists updated files; the commit phase then never ends the run
\* for lack of a change record.
C40_ChangeRecordAtCommit ==
    [][(pc = "commit_and_pr" /\ TestsPassedTruthy(test_results))
          => /\ Executions("main_code_generation") >= 1
             /\ code_changes # None
             /\ "updated_files" \in DOMAIN TheValue(code_changes)
             /\ (pc' = "FAILED" => remote_calls' # remote_calls)]_vars

\* C40 witness: the commit phase is entered after a generation phase that had
\* no source file to generate; the change record exists and lists nothing.
C40_Witness ==
    /\ pc = "commit_and_pr"
    /\ TestsPassedTruthy(test_results)
    /\ PlanList("source_files") = <<>>
    /\ code_changes # None
    /\ UpdatedFiles(code_changes) = <<>>

====
